---- MODULE Spec2Model ----
(***************************************************************************)
(* A model of the mind-map core of mdfranz/arvindkc-mind-maps:              *)
(*   lib/graphOps  (src/unnamed/part_005, lines 285-482)                    *)
(*   lib/outline   (src/unnamed/part_004, lines 66-212)                     *)
(*   lib/vault     (src/unnamed/part_004, lines 1-64)                       *)
(*   lib/layout    (src/src/lib/layout.ts)                                  *)
(*   components/MindMapEditor (src/src/components/MindMapEditor.tsx,        *)
(*                              lines 637-1128)                             *)
(*                                                                         *)
(* Strings that the code inspects character by character (outline text,    *)
(* node labels) are sequences of one-character strings.  Node and edge     *)
(* identifiers are TLA+ strings.  Coordinates are integers counted in      *)
(* sixths of a pixel (see Px), which keeps the halves and thirds that the  *)
(* layout produces exact.                                                  *)
(***************************************************************************)
EXTENDS Integers, Sequences, FiniteSets, TLC

VARIABLES
  nodes,          \* MindModelNode[]: the graph's node list
  edges,          \* Edge[]: the graph's edge list
  editingNodeId,  \* MindMapEditor: id of the node being edited, or NULL
  canvas,         \* bounding box of the editor canvas: [width, height]
  created,        \* number of ids createNodeId has handed out
  last,           \* record of the last operation applied (inputs, outputs)
  text,           \* outline text in the outline pipeline
  outline,        \* OutlineItem[] in the outline pipeline
  src,            \* the input the outline pipeline started from
  steps,          \* names of the pipeline functions applied so far
  savedMap,       \* useVault: nodes and edges of the selected saved map, or NoMap
  outlineDraft,   \* useOutline: the text of the outline panel
  isOutlineFocused, \* useOutline: the outline panel has the focus
  app             \* App: the state of useVault and useAutosave, or NoApp

vars == <<nodes, edges, editingNodeId, canvas, created, last, text, outline, src, steps,
          savedMap, outlineDraft, isOutlineFocused, app>>

\* selectedMapId === null: no saved map is selected.
NoMap == [nodes |-> <<>>, edges |-> <<>>]

NULL == "null"

\* The editor on its own, without the App around it.
NoApp == [kind |-> "none"]

(***************************************************************************)
(* Bounds of the model.                                                    *)
(***************************************************************************)
MaxTextLen == 3     \* outline texts of every shape up to this length
MaxLines == 3       \* indented outline texts: number of lines
MaxTabs == 1        \* indented outline texts: leading tabs of a line
MaxItems == 3       \* outlines given as item lists: number of items
MaxTreeNodes == 4   \* trees given as input: number of nodes
MaxSteps == 4       \* pipeline functions applied in a row
MaxCreated == 4     \* ids handed out by createNodeId
MaxEditorCreated == 1  \* nodes created in the editor
MaxLayoutNodes == 5 \* trees handed to positionTree: number of nodes
MaxRootChildren == 4 \* children added to the root in a row
MaxNewMaps == 1       \* maps created by createNewMap
MaxInFlight == 1      \* requests to the server without a response, of a kind
MaxCommands == 3      \* commands of the user on the saved maps and the editor

(***************************************************************************)
(* Generic helpers.                                                        *)
(***************************************************************************)
Min(S) == CHOOSE m \in S : \A n \in S : m <= n
Max(S) == CHOOSE m \in S : \A n \in S : m >= n
MinOf(a, b) == IF a <= b THEN a ELSE b
MaxOf(a, b) == IF a >= b THEN a ELSE b
Range(s) == {s[i] : i \in 1..Len(s)}

RECURSIVE SumSeq(_)
SumSeq(s) == IF s = <<>> THEN 0 ELSE Head(s) + SumSeq(Tail(s))

RECURSIVE Concat(_)
Concat(ss) == IF ss = <<>> THEN <<>> ELSE Head(ss) \o Concat(Tail(ss))

RECURSIVE Repeat(_, _)
Repeat(s, n) == IF n <= 0 THEN <<>> ELSE s \o Repeat(s, n - 1)

\* The least index of the set, or 0 when it is empty (Array.findIndex + 1).
FirstIndex(hits) == IF hits = {} THEN 0 ELSE Min(hits)

(***************************************************************************)
(* JavaScript string primitives used by lib/outline, on character          *)
(* sequences.                                                              *)
(***************************************************************************)
\* The characters String.prototype.trim and the regex class \s remove,
\* restricted to the ones the model's alphabet holds.
IsSpace(c) == c \in {" ", "\t", "\n", "\r"}

\* line.match(/^\s*/)[0]: the longest prefix of whitespace.
leadingWhitespace(line) ==
  LET k == FirstIndex({i \in 1..Len(line) : ~IsSpace(line[i])})
  IN IF k = 0 THEN line ELSE SubSeq(line, 1, k - 1)

\* String.prototype.trim
trim(s) ==
  LET solid == {i \in 1..Len(s) : ~IsSpace(s[i])}
  IN IF solid = {} THEN <<>> ELSE SubSeq(s, Min(solid), Max(solid))

\* Mutant of stripBullet: every leading bullet is removed, not only the first.
RECURSIVE stripEveryBullet(_)
stripEveryBullet(s) ==
  IF Len(s) >= 2 /\ s[1] \in {"-", "*"} /\ IsSpace(s[2])
  THEN LET rest == Tail(s)
           k == FirstIndex({i \in 1..Len(rest) : ~IsSpace(rest[i])})
       IN IF k = 0 THEN <<>> ELSE stripEveryBullet(SubSeq(rest, k, Len(rest)))
  ELSE s

\* s.replace(/^[-*]\s+/, ''): one leading bullet and the whitespace run after it.
stripBullet(s) ==
  IF Len(s) >= 2 /\ s[1] \in {"-", "*"} /\ IsSpace(s[2])
  THEN LET rest == Tail(s)
       IN SubSeq(rest, Len(leadingWhitespace(rest)) + 1, Len(rest))
  ELSE s

\* String.prototype.split('\n')
RECURSIVE split(_)
split(s) ==
  LET k == FirstIndex({i \in 1..Len(s) : s[i] = "\n"})
  IN IF k = 0 THEN <<s>>
     ELSE <<SubSeq(s, 1, k - 1)>> \o split(SubSeq(s, k + 1, Len(s)))

\* Array.prototype.join('\n')
RECURSIVE join(_)
join(ls) ==
  IF ls = <<>> THEN <<>>
  ELSE IF Len(ls) = 1 THEN ls[1]
  ELSE ls[1] \o <<"\n">> \o join(Tail(ls))

Count(s, c) == Cardinality({i \in 1..Len(s) : s[i] = c})

(***************************************************************************)
(* lib/outline: text <-> OutlineItem[]                                     *)
(***************************************************************************)
\* The null that parseOutlineLine returns for a line holding no item.
NoItem == [text |-> <<>>, depth |-> -1]

\* Mutant of outlineLine: one space of indentation per level.
outlineLineOneSpace(item) == Repeat(<<" ">>, item.depth) \o <<"-", " ">> \o item.text

outlineLine(item) == Repeat(<<" ", " ">>, item.depth) \o <<"-", " ">> \o item.text

outlineToText(items) == join([i \in 1..Len(items) |-> outlineLine(items[i])])

parseOutlineLine(line) ==
  IF trim(line) = <<>> THEN NoItem
  ELSE LET lead == leadingWhitespace(line)
           tabDepth == Count(lead, "\t")
           spaceDepth == Count(lead, " ") \div 2
           depth == tabDepth + spaceDepth
           body == trim(stripBullet(trim(line)))
       IN IF body = <<>> THEN NoItem ELSE [text |-> body, depth |-> depth]

\* Mutant of normalizeFrom: the depth is floored at 1 but not clamped to
\* the previous depth plus one.
RECURSIVE normalizeUnclamped(_, _, _, _)
normalizeUnclamped(parsed, i, previousDepth, normalized) ==
  IF i > Len(parsed) THEN normalized
  ELSE IF i = 1
       THEN normalizeUnclamped(parsed, 2, 0, Append(normalized, [parsed[1] EXCEPT !.depth = 0]))
       ELSE LET forcedDepth == MaxOf(1, parsed[i].depth)
            IN normalizeUnclamped(parsed, i + 1, forcedDepth,
                                  Append(normalized, [parsed[i] EXCEPT !.depth = forcedDepth]))

\* The forEach of parseOutlineText from index i on (1-based), with the
\* running previousDepth and the normalized list built so far.
RECURSIVE normalizeFrom(_, _, _, _)
normalizeFrom(parsed, i, previousDepth, normalized) ==
  IF i > Len(parsed) THEN normalized
  ELSE IF i = 1
       THEN normalizeFrom(parsed, 2, 0, Append(normalized, [parsed[1] EXCEPT !.depth = 0]))
       ELSE LET nextDepth == MinOf(parsed[i].depth, previousDepth + 1)
                forcedDepth == MaxOf(1, nextDepth)
            IN normalizeFrom(parsed, i + 1, forcedDepth,
                             Append(normalized, [parsed[i] EXCEPT !.depth = forcedDepth]))

parseOutlineText(outlineText) ==
  LET lines == split(outlineText)
      mapped == [i \in 1..Len(lines) |-> parseOutlineLine(lines[i])]
      parsed == SelectSeq(mapped, LAMBDA item : item # NoItem)
  IN normalizeFrom(parsed, 1, 0, <<>>)

(***************************************************************************)
(* Graph records.  A node is [id, label, x, y, side, selected]; side is    *)
(* "left", "right", "center" or "undefined" (data.side absent).  An edge   *)
(* is [id, source, target, sourceHandle, targetHandle] with "undefined"    *)
(* for an absent handle; its constant type 'smoothstep' is left out.       *)
(***************************************************************************)
\* Pixels to the model's unit, a sixth of a pixel.
Px(n) == n * 6

Node(id, label, x, y, side, selected) ==
  [id |-> id, label |-> label, x |-> x, y |-> y, side |-> side, selected |-> selected]

\* { id: `${source}-${target}`, source, target, type: 'smoothstep' }
Edge(source, target) ==
  [id |-> source \o "-" \o target, source |-> source, target |-> target,
   sourceHandle |-> "undefined", targetHandle |-> "undefined"]

NodeIds(ns) == {ns[i].id : i \in 1..Len(ns)}

\* new Map(nodes.map((node) => [node.id, node])).get(id), for an id of the list:
\* the last node carrying the id.
NodeById(ns, id) == ns[Max({i \in 1..Len(ns) : ns[i].id = id})]

\* nodes.find((node) => node.id === id), for an id of the list.
FindNode(ns, id) == ns[Min({i \in 1..Len(ns) : ns[i].id = id})]

Targets(es) == {es[i].target : i \in 1..Len(es)}

(***************************************************************************)
(* lib/layout                                                              *)
(***************************************************************************)
BASE_X_STEP == 240
Y_STEP == 108
NODE_SLOT == 64

getRootId(ns, es) ==
  LET k == FirstIndex({i \in 1..Len(ns) : ns[i].id \notin Targets(es)})
  IN IF k # 0 THEN ns[k].id
     ELSE IF Len(ns) > 0 THEN ns[1].id ELSE NULL

\* source id -> the targets of its edges, in edge order
getChildrenMap(es) ==
  [s \in {es[i].source : i \in 1..Len(es)} |->
     LET mine == SelectSeq(es, LAMBDA e : e.source = s)
     IN [i \in 1..Len(mine) |-> mine[i].target]]

\* childrenMap.get(id) ?? []
ChildrenIn(childrenMap, id) ==
  IF id \in DOMAIN childrenMap THEN childrenMap[id] ELSE <<>>

\* The memo tables of countSubtree, subtreeSpan and getDepth only cache
\* results (every cached value is >= 1, hence truthy) and are left out.
RECURSIVE countSubtree(_, _)
countSubtree(nodeId, childrenMap) ==
  LET children == ChildrenIn(childrenMap, nodeId)
  IN IF Len(children) = 0 THEN 1
     ELSE 1 + SumSeq([i \in 1..Len(children) |-> countSubtree(children[i], childrenMap)])

RECURSIVE subtreeSpan(_, _)
subtreeSpan(nodeId, childrenMap) ==
  LET children == ChildrenIn(childrenMap, nodeId)
  IN IF Len(children) = 0 THEN Px(NODE_SLOT)
     ELSE LET childrenTotal ==
                SumSeq([i \in 1..Len(children) |-> subtreeSpan(children[i], childrenMap)])
          IN MaxOf(Px(NODE_SLOT), childrenTotal + (Len(children) - 1) * Px(12))

RECURSIVE getDepth(_, _)
getDepth(nodeId, childrenMap) ==
  LET children == ChildrenIn(childrenMap, nodeId)
  IN IF Len(children) = 0 THEN 1
     ELSE 1 + Max({getDepth(children[i], childrenMap) : i \in 1..Len(children)})

\* The quotient space / sideDepth is exact in sixths of a pixel whenever it
\* lies between the two clamps, for the canvas widths of the model.
computeXStep(canvasWidth, maxDepth, rootCenterX, hasLeft, hasRight) ==
  LET leftSpace == MaxOf(Px(180), rootCenterX - Px(80))
      rightSpace == MaxOf(Px(180), canvasWidth - rootCenterX - Px(80))
      sideDepth == MaxOf(1, maxDepth - 1)
  IN IF hasLeft /\ hasRight
     THEN MaxOf(Px(150), MinOf(Px(BASE_X_STEP), MinOf(leftSpace, rightSpace) \div sideDepth))
     ELSE IF hasLeft
     THEN MaxOf(Px(150), MinOf(Px(BASE_X_STEP), leftSpace \div sideDepth))
     ELSE IF hasRight
     THEN MaxOf(Px(150), MinOf(Px(BASE_X_STEP), rightSpace \div sideDepth))
     ELSE Px(BASE_X_STEP)

\* placed: node id -> [x, y, side], the positions and sides written so far
\* (node.position, node.data.side and sideByNode of the code).
Put(placed, id, v) ==
  [k \in DOMAIN placed \cup {id} |-> IF k = id THEN v ELSE placed[k]]

\* placeSubtree returns the table after placing nodeId and its descendants;
\* placeChildren is its children.forEach from index i on, with the cursor.
RECURSIVE placeSubtree(_, _, _, _, _, _, _, _)
RECURSIVE placeChildren(_, _, _, _, _, _, _, _, _)
\* Mutant of placeSubtree: nodes placed to the left keep the side 'center'.
placeSubtreeUntagged(nodeId, parentX, centerY, direction, xStep, childrenMap, ids, placed) ==
  IF nodeId \notin ids THEN placed
  ELSE LET side == IF direction = -1 THEN "center" ELSE "right"
           here == Put(placed, nodeId,
                       [x |-> parentX + direction * xStep, y |-> centerY, side |-> side])
           children == ChildrenIn(childrenMap, nodeId)
       IN IF Len(children) = 0 THEN here
          ELSE LET totalSpan ==
                     SumSeq([i \in 1..Len(children) |-> subtreeSpan(children[i], childrenMap)])
                   totalWithGaps == totalSpan + (Len(children) - 1) * Px(12)
               IN placeChildren(children, 1, centerY - totalWithGaps \div 2, nodeId,
                                direction, xStep, childrenMap, ids, here)

\* Mutant of placeSubtree: every node is placed one step to the right of
\* its parent, whatever the direction.
placeSubtreeOneWay(nodeId, parentX, centerY, direction, xStep, childrenMap, ids, placed) ==
  IF nodeId \notin ids THEN placed
  ELSE LET side == IF direction = -1 THEN "left" ELSE "right"
           here == Put(placed, nodeId,
                       [x |-> parentX + xStep, y |-> centerY, side |-> side])
           children == ChildrenIn(childrenMap, nodeId)
       IN IF Len(children) = 0 THEN here
          ELSE LET totalSpan ==
                     SumSeq([i \in 1..Len(children) |-> subtreeSpan(children[i], childrenMap)])
                   totalWithGaps == totalSpan + (Len(children) - 1) * Px(12)
               IN placeChildren(children, 1, centerY - totalWithGaps \div 2, nodeId,
                                direction, xStep, childrenMap, ids, here)

placeSubtree(nodeId, parentX, centerY, direction, xStep, childrenMap, ids, placed) ==
  IF nodeId \notin ids THEN placed
  ELSE LET side == IF direction = -1 THEN "left" ELSE "right"
           here == Put(placed, nodeId,
                       [x |-> parentX + direction * xStep, y |-> centerY, side |-> side])
           children == ChildrenIn(childrenMap, nodeId)
       IN IF Len(children) = 0 THEN here
          ELSE LET totalSpan ==
                     SumSeq([i \in 1..Len(children) |-> subtreeSpan(children[i], childrenMap)])
                   totalWithGaps == totalSpan + (Len(children) - 1) * Px(12)
               IN placeChildren(children, 1, centerY - totalWithGaps \div 2, nodeId,
                                direction, xStep, childrenMap, ids, here)

\* Mutant of placeChildren: the cursor advances by half the child's span.
placeChildrenTight(children, i, cursor, nodeId, direction, xStep, childrenMap, ids, placed) ==
  IF i > Len(children) THEN placed
  ELSE LET childSpan == subtreeSpan(children[i], childrenMap)
           childCenter == cursor + childSpan \div 2
       IN placeChildren(children, i + 1, cursor + childSpan \div 2, nodeId,
                        direction, xStep, childrenMap, ids,
                        placeSubtree(children[i], placed[nodeId].x, childCenter,
                                     direction, xStep, childrenMap, ids, placed))

placeChildren(children, i, cursor, nodeId, direction, xStep, childrenMap, ids, placed) ==
  IF i > Len(children) THEN placed
  ELSE LET childSpan == subtreeSpan(children[i], childrenMap)
           childCenter == cursor + childSpan \div 2
       IN placeChildren(children, i + 1, cursor + childSpan + Px(12), nodeId,
                        direction, xStep, childrenMap, ids,
                        placeSubtree(children[i], placed[nodeId].x, childCenter,
                                     direction, xStep, childrenMap, ids, placed))

LeftLoad(load) == load[1]
RightLoad(load) == load[2]

\* The rootChildren.forEach of chooseRootChildSide: <<left, right>> loads.
RECURSIVE sideLoadsFrom(_, _, _, _, _)
sideLoadsFrom(rootChildren, i, ns, childrenMap, loads) ==
  IF i > Len(rootChildren) THEN loads
  ELSE LET childId == rootChildren[i]
           preferred == IF childId \in NodeIds(ns) THEN FindNode(ns, childId).side
                        ELSE "undefined"
           side == IF preferred \in {"left", "right"} THEN preferred
                   ELSE IF (i - 1) % 2 = 0 THEN "right" ELSE "left"
           n == countSubtree(childId, childrenMap)
       IN sideLoadsFrom(rootChildren, i + 1, ns, childrenMap,
                        IF side = "left" THEN <<loads[1] + n, loads[2]>>
                        ELSE <<loads[1], loads[2] + n>>)

\* Mutant of chooseRootChildSide: every new child goes to the left.
chooseSideLeft(parentId, ns, es, canvasWidth, rootCenterX) == "left"

\* Mutant of chooseRootChildSide: equal loads give 'right'.
chooseSideRightOnTie(parentId, ns, es, canvasWidth, rootCenterX) ==
  LET rootId == getRootId(ns, es)
  IN IF rootId = NULL \/ parentId # rootId
     THEN IF parentId \in NodeIds(ns) /\ FindNode(ns, parentId).side = "left"
          THEN "left" ELSE "right"
     ELSE LET childrenMap == getChildrenMap(es)
              rootChildren == ChildrenIn(childrenMap, rootId)
              sideLoads == sideLoadsFrom(rootChildren, 1, ns, childrenMap, <<0, 0>>)
              leftRoom == rootCenterX - Px(120)
              rightRoom == canvasWidth - rootCenterX - Px(120)
          IN IF leftRoom < Px(170) /\ rightRoom > leftRoom THEN "right"
             ELSE IF rightRoom < Px(170) /\ leftRoom > rightRoom THEN "left"
             ELSE IF LeftLoad(sideLoads) < RightLoad(sideLoads) THEN "left" ELSE "right"

chooseRootChildSide(parentId, ns, es, canvasWidth, rootCenterX) ==
  LET rootId == getRootId(ns, es)
  IN IF rootId = NULL \/ parentId # rootId
     THEN IF parentId \in NodeIds(ns) /\ FindNode(ns, parentId).side = "left"
          THEN "left" ELSE "right"
     ELSE LET childrenMap == getChildrenMap(es)
              rootChildren == ChildrenIn(childrenMap, rootId)
              sideLoads == sideLoadsFrom(rootChildren, 1, ns, childrenMap, <<0, 0>>)
              leftRoom == rootCenterX - Px(120)
              rightRoom == canvasWidth - rootCenterX - Px(120)
          IN IF leftRoom < Px(170) /\ rightRoom > leftRoom THEN "right"
             ELSE IF rightRoom < Px(170) /\ leftRoom > rightRoom THEN "left"
             ELSE IF LeftLoad(sideLoads) <= RightLoad(sideLoads) THEN "left" ELSE "right"

\* options?.canvasWidth ?? 1200, options?.centerX ?? canvasWidth / 2,
\* options?.centerY ?? 380 for a call without options.
DefaultOptions == [canvasWidth |-> Px(1200), centerX |-> Px(1200) \div 2, centerY |-> Px(380)]

\* Mutant of rootChildGroup: a child that carries a side goes to the other
\* side.
rootChildGroupSwapped(ns, childId, i) ==
  LET side == IF childId \in NodeIds(ns) THEN NodeById(ns, childId).side ELSE "undefined"
  IN IF side = "left" THEN "right"
     ELSE IF side = "right" THEN "left"
     ELSE IF (i - 1) % 2 = 0 THEN "right" ELSE "left"

\* Mutant of rootChildGroup: the side a child carries is ignored.
rootChildGroupByIndex(ns, childId, i) ==
  IF (i - 1) % 2 = 0 THEN "right" ELSE "left"

\* The side group of the root child at index i (1-based) of rootChildren.
rootChildGroup(ns, childId, i) ==
  LET side == IF childId \in NodeIds(ns) THEN NodeById(ns, childId).side ELSE "undefined"
  IN IF side = "left" THEN "left"
     ELSE IF side = "right" THEN "right"
     ELSE IF (i - 1) % 2 = 0 THEN "right" ELSE "left"

\* placeSide's branchIds.forEach from index i on.
RECURSIVE placeBranches(_, _, _, _, _, _, _, _, _)
\* Mutant of placeBranches: the cursor advances by the gap only.
placeBranchesStacked(branchIds, i, cursor, centerX, direction, xStep, childrenMap, ids, placed) ==
  IF i > Len(branchIds) THEN placed
  ELSE LET span == subtreeSpan(branchIds[i], childrenMap)
           y == cursor + span \div 2
       IN placeBranches(branchIds, i + 1, cursor + (Px(Y_STEP) \div 4), centerX,
                        direction, xStep, childrenMap, ids,
                        placeSubtree(branchIds[i], centerX, y, direction, xStep,
                                     childrenMap, ids, placed))

placeBranches(branchIds, i, cursor, centerX, direction, xStep, childrenMap, ids, placed) ==
  IF i > Len(branchIds) THEN placed
  ELSE LET span == subtreeSpan(branchIds[i], childrenMap)
           y == cursor + span \div 2
       IN placeBranches(branchIds, i + 1, cursor + span + (Px(Y_STEP) \div 4), centerX,
                        direction, xStep, childrenMap, ids,
                        placeSubtree(branchIds[i], centerX, y, direction, xStep,
                                     childrenMap, ids, placed))

placeSide(branchIds, direction, centerX, centerY, xStep, childrenMap, ids, placed) ==
  IF Len(branchIds) = 0 THEN placed
  ELSE LET totalSpan ==
             SumSeq([i \in 1..Len(branchIds) |-> subtreeSpan(branchIds[i], childrenMap)])
           totalWithGaps == totalSpan + (Len(branchIds) - 1) * (Px(Y_STEP) \div 4)
       IN placeBranches(branchIds, 1, centerY - totalWithGaps \div 2, centerX,
                        direction, xStep, childrenMap, ids, placed)

positionTree(ns, es, options) ==
  LET rootId == getRootId(ns, es)
  IN IF rootId = NULL THEN ns
     ELSE
       LET childrenMap == getChildrenMap(es)
           ids == NodeIds(ns)
           centerX == options.centerX
           centerY == options.centerY
           rootChildren == ChildrenIn(childrenMap, rootId)
           idx == 1..Len(rootChildren)
           leftIdx == {i \in idx : rootChildGroup(ns, rootChildren[i], i) = "left"}
           left == [j \in 1..Cardinality(leftIdx) |->
                      rootChildren[CHOOSE i \in leftIdx :
                                     Cardinality({k \in leftIdx : k <= i}) = j]]
           right == [j \in 1..Cardinality(idx \ leftIdx) |->
                       rootChildren[CHOOSE i \in idx \ leftIdx :
                                      Cardinality({k \in idx \ leftIdx : k <= i}) = j]]
           maxDepth == getDepth(rootId, childrenMap)
           xStep == computeXStep(options.canvasWidth, maxDepth, centerX,
                                 Len(left) > 0, Len(right) > 0)
           placedRoot == Put(<<>>, rootId, [x |-> centerX, y |-> centerY, side |-> "center"])
           placedLeft == placeSide(left, -1, centerX, centerY, xStep, childrenMap, ids,
                                   placedRoot)
           placed == placeSide(right, 1, centerX, centerY, xStep, childrenMap, ids,
                               placedLeft)
       IN [i \in 1..Len(ns) |->
             IF ns[i].id \in DOMAIN placed
             THEN [ns[i] EXCEPT !.x = placed[ns[i].id].x, !.y = placed[ns[i].id].y,
                                !.side = placed[ns[i].id].side]
             ELSE [ns[i] EXCEPT !.side = IF ns[i].id = rootId THEN "center" ELSE "right"]]

(***************************************************************************)
(* lib/graphOps                                                            *)
(***************************************************************************)
\* 'New Topic' and 'Central Idea'
NewTopic == <<"N", "e", "w", " ", "T", "o", "p", "i", "c">>
CentralIdea == <<"C", "e", "n", "t", "r", "a", "l", " ", "I", "d", "e", "a">>

getParentId(nodeId, es) ==
  LET k == FirstIndex({i \in 1..Len(es) : es[i].target = nodeId})
  IN IF k = 0 THEN NULL ELSE es[k].source

getChildrenOf(parentId, es) ==
  LET mine == SelectSeq(es, LAMBDA e : e.source = parentId)
  IN [i \in 1..Len(mine) |-> mine[i].target]

\* The comparator of getTraversalOrder's sort: a before b when negative.
compareY(ns, aId, bId) ==
  IF aId \notin NodeIds(ns) \/ bId \notin NodeIds(ns) THEN 0
  ELSE NodeById(ns, aId).y - NodeById(ns, bId).y

\* Array.prototype.sort with compareY: stable, by insertion.
RECURSIVE insertByY(_, _, _)
insertByY(sorted, id, ns) ==
  IF sorted = <<>> THEN <<id>>
  ELSE IF compareY(ns, sorted[Len(sorted)], id) <= 0 THEN Append(sorted, id)
  ELSE Append(insertByY(SubSeq(sorted, 1, Len(sorted) - 1), id, ns), sorted[Len(sorted)])

\* Mutant of sortByY: the children stay in edge order.
keepEdgeOrder(ids, ns) == ids

RECURSIVE sortByY(_, _)
sortByY(ids, ns) ==
  IF ids = <<>> THEN <<>>
  ELSE insertByY(sortByY(SubSeq(ids, 1, Len(ids) - 1), ns), ids[Len(ids)], ns)

\* walk of getTraversalOrder: the order after visiting id (visited is the
\* set of ids in order); walkEach is its children.forEach from index i on.
RECURSIVE walkOrder(_, _, _, _)
RECURSIVE walkEach(_, _, _, _, _)
walkOrder(id, ns, childrenMap, order) ==
  IF id \in Range(order) THEN order
  ELSE walkEach(sortByY(ChildrenIn(childrenMap, id), ns), 1, ns, childrenMap,
                Append(order, id))

walkEach(ids, i, ns, childrenMap, order) ==
  IF i > Len(ids) THEN order
  ELSE walkEach(ids, i + 1, ns, childrenMap, walkOrder(ids[i], ns, childrenMap, order))

getTraversalOrder(ns, es) ==
  LET childrenMap == getChildrenMap(es)
      roots == SelectSeq(ns, LAMBDA node : node.id \notin Targets(es))
      walked == walkEach([i \in 1..Len(roots) |-> roots[i].id], 1, ns, childrenMap, <<>>)
      rest == SelectSeq(ns, LAMBDA node : node.id \notin Range(walked))
  IN walked \o [i \in 1..Len(rest) |-> rest[i].id]

\* Mutant of addChildNode: the nodes of the input keep their selection.
addChildKeepingSelection(params) ==
  LET newId == params.newId
      hasParent == params.parentId \in NodeIds(params.nodes)
      rootId == getRootId(params.nodes, params.edges)
      rootCenterX == IF rootId # NULL THEN FindNode(params.nodes, rootId).x
                     ELSE params.canvasWidth \div 2
      side == IF params.parentId = rootId
              THEN chooseRootChildSide(params.parentId, params.nodes, params.edges,
                                       params.canvasWidth, rootCenterX)
              ELSE IF hasParent /\ FindNode(params.nodes, params.parentId).side = "left"
              THEN "left" ELSE "right"
      parentX == IF hasParent THEN FindNode(params.nodes, params.parentId).x
                 ELSE params.canvasWidth \div 2
      initialX == parentX + (IF side = "left" THEN -Px(140) ELSE Px(140))
      initialY == IF hasParent THEN FindNode(params.nodes, params.parentId).y
                  ELSE params.canvasHeight \div 2
      newNode == Node(newId, NewTopic, initialX, initialY, side, TRUE)
      nextEdges == Append(params.edges, Edge(params.parentId, newId))
      nextNodes == Append(params.nodes, newNode)
  IN [nodes |-> nextNodes, edges |-> nextEdges, newNodeId |-> newId]

\* params = [nodes, edges, parentId, canvasWidth, canvasHeight, newId], newId
\* being the value params.createNodeId() returns.
addChildNode(params) ==
  LET newId == params.newId
      hasParent == params.parentId \in NodeIds(params.nodes)
      rootId == getRootId(params.nodes, params.edges)
      rootCenterX == IF rootId # NULL THEN FindNode(params.nodes, rootId).x
                     ELSE params.canvasWidth \div 2
      side == IF params.parentId = rootId
              THEN chooseRootChildSide(params.parentId, params.nodes, params.edges,
                                       params.canvasWidth, rootCenterX)
              ELSE IF hasParent /\ FindNode(params.nodes, params.parentId).side = "left"
              THEN "left" ELSE "right"
      parentX == IF hasParent THEN FindNode(params.nodes, params.parentId).x
                 ELSE params.canvasWidth \div 2
      initialX == parentX + (IF side = "left" THEN -Px(140) ELSE Px(140))
      initialY == IF hasParent THEN FindNode(params.nodes, params.parentId).y
                  ELSE params.canvasHeight \div 2
      newNode == Node(newId, NewTopic, initialX, initialY, side, TRUE)
      nextEdges == Append(params.edges, Edge(params.parentId, newId))
      nextNodes == Append([i \in 1..Len(params.nodes) |->
                             [params.nodes[i] EXCEPT !.selected = FALSE]], newNode)
  IN [nodes |-> nextNodes, edges |-> nextEdges, newNodeId |-> newId]

\* Mutant of removeNodeAndAdoptChildren: the children of the removed node
\* are not adopted.
removeWithoutAdoption(params) ==
  LET parentId == getParentId(params.nodeId, params.edges)
      nextNodes == SelectSeq(params.nodes, LAMBDA node : node.id # params.nodeId)
      baseEdges == SelectSeq(params.edges,
                             LAMBDA e : e.source # params.nodeId /\ e.target # params.nodeId)
  IN [nodes |-> nextNodes, edges |-> baseEdges,
      selectedAfterDeleteId |-> IF parentId # NULL THEN parentId
                                ELSE IF Len(nextNodes) > 0 THEN nextNodes[1].id ELSE NULL]

\* Mutant of removeNodeAndAdoptChildren: the children are adopted by the
\* root instead of the removed node's parent.
removeAdoptedByRoot(params) ==
  LET parentId == getParentId(params.nodeId, params.edges)
      rootId == getRootId(params.nodes, params.edges)
      childEdges == SelectSeq(params.edges, LAMBDA e : e.source = params.nodeId)
      nextNodes == SelectSeq(params.nodes, LAMBDA node : node.id # params.nodeId)
      baseEdges == SelectSeq(params.edges,
                             LAMBDA e : e.source # params.nodeId /\ e.target # params.nodeId)
  IN [nodes |-> nextNodes,
      edges |-> baseEdges \o [i \in 1..Len(childEdges) |-> Edge(rootId, childEdges[i].target)],
      selectedAfterDeleteId |-> IF parentId # NULL THEN parentId
                                ELSE IF Len(nextNodes) > 0 THEN nextNodes[1].id ELSE NULL]

\* Mutant of removeNodeAndAdoptChildren: the first remaining node is the
\* selection target, parent or not.
removeSelectingFirst(params) ==
  LET parentId == getParentId(params.nodeId, params.edges)
      childEdges == SelectSeq(params.edges, LAMBDA e : e.source = params.nodeId)
      childIds == [i \in 1..Len(childEdges) |-> childEdges[i].target]
      nextNodes == SelectSeq(params.nodes, LAMBDA node : node.id # params.nodeId)
      baseEdges == SelectSeq(params.edges,
                             LAMBDA e : e.source # params.nodeId /\ e.target # params.nodeId)
      adoptable == SelectSeq(childIds,
                             LAMBDA childId :
                               ~\E i \in 1..Len(baseEdges) :
                                  baseEdges[i].source = parentId
                                  /\ baseEdges[i].target = childId)
      adoptedEdges == IF parentId = NULL THEN <<>>
                      ELSE [i \in 1..Len(adoptable) |-> Edge(parentId, adoptable[i])]
      nextEdges == baseEdges \o adoptedEdges
      selectedAfterDeleteId == IF Len(nextNodes) > 0 THEN nextNodes[1].id
                               ELSE NULL
  IN [nodes |-> nextNodes, edges |-> nextEdges,
      selectedAfterDeleteId |-> selectedAfterDeleteId]

\* params = [nodes, edges, nodeId]
removeNodeAndAdoptChildren(params) ==
  LET parentId == getParentId(params.nodeId, params.edges)
      childEdges == SelectSeq(params.edges, LAMBDA e : e.source = params.nodeId)
      childIds == [i \in 1..Len(childEdges) |-> childEdges[i].target]
      nextNodes == SelectSeq(params.nodes, LAMBDA node : node.id # params.nodeId)
      baseEdges == SelectSeq(params.edges,
                             LAMBDA e : e.source # params.nodeId /\ e.target # params.nodeId)
      adoptable == SelectSeq(childIds,
                             LAMBDA childId :
                               ~\E i \in 1..Len(baseEdges) :
                                  baseEdges[i].source = parentId
                                  /\ baseEdges[i].target = childId)
      adoptedEdges == IF parentId = NULL THEN <<>>
                      ELSE [i \in 1..Len(adoptable) |-> Edge(parentId, adoptable[i])]
      nextEdges == baseEdges \o adoptedEdges
      selectedAfterDeleteId == IF parentId # NULL THEN parentId
                               ELSE IF Len(nextNodes) > 0 THEN nextNodes[1].id
                               ELSE NULL
  IN [nodes |-> nextNodes, edges |-> nextEdges,
      selectedAfterDeleteId |-> selectedAfterDeleteId]

(***************************************************************************)
(* lib/vault and lib/outline: graph <-> OutlineItem[]                      *)
(***************************************************************************)
createEmptyMap ==
  [nodes |-> <<Node("root", CentralIdea, Px(40), Px(40), "undefined", TRUE)>>,
   edges |-> <<>>]

\* Mutant of buildWalk: every child is emitted one level below the root.
RECURSIVE buildWalkFlat(_, _, _, _)
buildWalkFlat(nodeId, depth, ns, childrenMap) ==
  IF nodeId \notin NodeIds(ns) THEN <<>>
  ELSE LET children == ChildrenIn(childrenMap, nodeId)
       IN <<[text |-> NodeById(ns, nodeId).label, depth |-> depth]>>
          \o Concat([i \in 1..Len(children) |->
                       buildWalkFlat(children[i], 1, ns, childrenMap)])

\* walk of buildOutline: the items pushed by walk(nodeId, depth).
RECURSIVE buildWalk(_, _, _, _)
buildWalk(nodeId, depth, ns, childrenMap) ==
  IF nodeId \notin NodeIds(ns) THEN <<>>
  ELSE LET children == ChildrenIn(childrenMap, nodeId)
       IN <<[text |-> NodeById(ns, nodeId).label, depth |-> depth]>>
          \o Concat([i \in 1..Len(children) |->
                       buildWalk(children[i], depth + 1, ns, childrenMap)])

buildOutline(ns, es) ==
  LET childrenMap == getChildrenMap(es)
      roots == SelectSeq(ns, LAMBDA node : node.id \notin Targets(es))
  IN Concat([i \in 1..Len(roots) |-> buildWalk(roots[i].id, 0, ns, childrenMap)])

\* index === 0 ? 'root' : `node-${index}`, index counted from 0
outlineNodeId(index) == IF index = 0 THEN "root" ELSE "node-" \o ToString(index)

\* The nodes.forEach of outlineToGraph from position i on (1-based): the
\* edges pushed, given the depth stack (a sequence of [id, depth]).
\* Mutant of popStack: entries of equal depth stay on the stack.
RECURSIVE popStackStrict(_, _)
popStackStrict(stack, depth) ==
  IF Len(stack) > 0 /\ stack[Len(stack)].depth > depth
  THEN popStackStrict(SubSeq(stack, 1, Len(stack) - 1), depth)
  ELSE stack

RECURSIVE linkFrom(_, _, _, _, _)
RECURSIVE popStack(_, _)
popStack(stack, depth) ==
  IF Len(stack) > 0 /\ stack[Len(stack)].depth >= depth
  THEN popStack(SubSeq(stack, 1, Len(stack) - 1), depth)
  ELSE stack

linkFrom(ns, items, i, stack, es) ==
  IF i > Len(ns) THEN es
  ELSE LET depth == items[i].depth
           popped == popStack(stack, depth)
           linked == IF Len(popped) > 0
                     THEN Append(es, Edge(popped[Len(popped)].id, ns[i].id))
                     ELSE es
       IN linkFrom(ns, items, i + 1, Append(popped, [id |-> ns[i].id, depth |-> depth]),
                   linked)

outlineToGraph(items) ==
  IF Len(items) = 0
  THEN [nodes |-> <<Node("root", CentralIdea, Px(40), Px(40), "undefined", TRUE)>>,
        edges |-> <<>>]
  ELSE LET ns == [i \in 1..Len(items) |->
                    Node(outlineNodeId(i - 1), items[i].text,
                         Px(items[i].depth * 280 + 40), Px((i - 1) * 105 + 40),
                         "undefined", i = 1)]
           es == linkFrom(ns, items, 1, <<>>, <<>>)
           arranged == positionTree(ns, es, DefaultOptions)
       IN [nodes |-> [i \in 1..Len(arranged) |->
                        [arranged[i] EXCEPT !.x = @ + Px(40), !.y = @ + Px(40)]],
           edges |-> es]

(***************************************************************************)
(* Specification SpecGraph: a map that starts as a lone root and is        *)
(* edited by addChildNode (existing parent, fresh id) and                  *)
(* removeNodeAndAdoptChildren (non-root node).  SpecOps applies the same   *)
(* two functions to every id, present or not.                              *)
(***************************************************************************)
\* getBoundingClientRect() of the canvas, or its fallback 1200 x 720
DefaultCanvas == [width |-> Px(1200), height |-> Px(720)]

\* `node-${Date.now()}-${Math.random()...}`: the k-th id handed out, unlike
\* every id handed out before and every id outlineToGraph generates.
createNodeId(k) == "node-t" \o ToString(k)

\* An id that no node carries.
GhostId == "ghost"

NoCall == [op |-> "init"]

InitGraph ==
  /\ nodes = createEmptyMap.nodes
  /\ edges = createEmptyMap.edges
  /\ editingNodeId = NULL
  /\ canvas = DefaultCanvas
  /\ created = 0
  /\ last = NoCall
  /\ text = <<>>
  /\ outline = <<>>
  /\ src = [kind |-> "none"]
  /\ steps = <<>>
  /\ savedMap = NoMap
  /\ outlineDraft = <<>>
  /\ isOutlineFocused = FALSE
  /\ app = NoApp

AddChildNodeCall(parentId) ==
  /\ created < MaxCreated
  /\ LET r == addChildNode([nodes |-> nodes, edges |-> edges, parentId |-> parentId,
                            canvasWidth |-> canvas.width, canvasHeight |-> canvas.height,
                            newId |-> createNodeId(created + 1)])
     IN /\ nodes' = r.nodes
        /\ edges' = r.edges
        /\ last' = [op |-> "addChildNode", arg |-> parentId,
                    nodes |-> nodes, edges |-> edges, result |-> r]
  /\ created' = created + 1
  /\ UNCHANGED <<editingNodeId, canvas, text, outline, src, steps, savedMap,
               outlineDraft, isOutlineFocused, app>>

RemoveNodeCall(nodeId) ==
  /\ LET r == removeNodeAndAdoptChildren([nodes |-> nodes, edges |-> edges,
                                          nodeId |-> nodeId])
     IN /\ nodes' = r.nodes
        /\ edges' = r.edges
        /\ last' = [op |-> "removeNodeAndAdoptChildren", arg |-> nodeId,
                    nodes |-> nodes, edges |-> edges, result |-> r]
  /\ UNCHANGED <<editingNodeId, canvas, created, text, outline, src, steps, savedMap,
               outlineDraft, isOutlineFocused, app>>

AddChildToExisting == \E parentId \in NodeIds(nodes) : AddChildNodeCall(parentId)

RemoveNonRoot ==
  \E nodeId \in NodeIds(nodes) \ {getRootId(nodes, edges)} : RemoveNodeCall(nodeId)

NextGraph == AddChildToExisting \/ RemoveNonRoot

SpecGraph == InitGraph /\ [][NextGraph]_vars

AddChildToAny == \E parentId \in NodeIds(nodes) \cup {GhostId} : AddChildNodeCall(parentId)

RemoveAny == \E nodeId \in NodeIds(nodes) \cup {GhostId} : RemoveNodeCall(nodeId)

NextOps == AddChildToAny \/ RemoveAny

SpecOps == InitGraph /\ [][NextOps]_vars

(***************************************************************************)
(* Tree predicates used by the properties.                                 *)
(***************************************************************************)
InEdges(id, es) == {i \in 1..Len(es) : es[i].target = id}

RECURSIVE ReachableFrom(_, _)
ReachableFrom(S, es) ==
  LET more == S \cup {es[i].target : i \in {j \in 1..Len(es) : es[j].source \in S}}
  IN IF more = S THEN S ELSE ReachableFrom(more, es)

RootsOf(ns, es) == {i \in 1..Len(ns) : InEdges(ns[i].id, es) = {}}

IsTree(ns, es) ==
  /\ Cardinality(RootsOf(ns, es)) = 1
  /\ \A i \in 1..Len(ns) : i \notin RootsOf(ns, es) => Cardinality(InEdges(ns[i].id, es)) = 1
  /\ \A i \in 1..Len(es) : es[i].source \in NodeIds(ns) /\ es[i].target \in NodeIds(ns)
  /\ \A i, j \in 1..Len(ns) : i # j => ns[i].id # ns[j].id
  /\ \A i \in RootsOf(ns, es) : ReachableFrom({ns[i].id}, es) = NodeIds(ns)

\* C1: from a lone root, every sequence of addChildNode (existing parent,
\* fresh id) and removeNodeAndAdoptChildren (non-root node) leaves a tree:
\* one node without incoming edge, one incoming edge for every other node,
\* all nodes reachable from the root, no dangling edge, distinct ids.
C1_TreePreserved == IsTree(nodes, edges)

\* A node with children has been removed and its children adopted.
C1_Witness ==
  /\ last.op = "removeNodeAndAdoptChildren"
  /\ \E i \in 1..Len(last.edges) : last.edges[i].source = last.arg
  /\ Len(nodes) >= 3

\* C2: removeNodeAndAdoptChildren(n) on a tree and a non-root n returns the
\* input nodes minus exactly n, no edge touching n, and for every former
\* child of n an edge from n's former parent.
C2_RemoveAdopts ==
  last.op = "removeNodeAndAdoptChildren" =>
    LET n == last.arg
        r == last.result
        parentOfN == last.edges[CHOOSE i \in 1..Len(last.edges) :
                                  last.edges[i].target = n].source
        formerChildren == {last.edges[i].target :
                             i \in {j \in 1..Len(last.edges) : last.edges[j].source = n}}
    IN /\ Len(r.nodes) = Len(last.nodes) - 1
       /\ n \notin NodeIds(r.nodes)
       /\ \A i \in 1..Len(last.nodes) :
            last.nodes[i].id # n => \E j \in 1..Len(r.nodes) : r.nodes[j] = last.nodes[i]
       /\ \A i \in 1..Len(r.edges) : r.edges[i].source # n /\ r.edges[i].target # n
       /\ \A c \in formerChildren :
            \E i \in 1..Len(r.edges) :
              r.edges[i].source = parentOfN /\ r.edges[i].target = c

\* A node that is neither the root nor a root child, and has a child, was
\* removed.
C2_Witness ==
  /\ last.op = "removeNodeAndAdoptChildren"
  /\ \E i \in 1..Len(last.edges) : last.edges[i].source = last.arg
  /\ getParentId(last.arg, last.edges) # getRootId(last.nodes, last.edges)

\* C4: addChildNode with a parentId that no node carries returns the input
\* edges unchanged.
C4_MissingParentNoOp ==
  (last.op = "addChildNode" /\ last.arg \notin NodeIds(last.nodes)) =>
    last.result.edges = last.edges

(***************************************************************************)
(* Specification SpecOutline: the functions of lib/outline applied in a    *)
(* row to an input drawn from bounded sets: an outline text, a list of     *)
(* outline items, or a tree.                                               *)
(***************************************************************************)
Alphabet == {" ", "\t", "\n", "-", "*", "a"}

\* Every text over the alphabet up to MaxTextLen characters.
ShortTexts == UNION {[1..n -> Alphabet] : n \in 0..MaxTextLen}

\* Bullet lines indented by up to MaxTabs tabs and then no or two
\* spaces, and the texts of up to MaxLines of them.
IndentedLines ==
  {Repeat(<<"\t">>, t) \o Repeat(<<" ">>, sp) \o <<"-", " ", "a">> :
     t \in 0..MaxTabs, sp \in {0, 2}}

LineTexts == {join(ls) : ls \in UNION {[1..n -> IndentedLines] : n \in 1..MaxLines}}

InputTexts == ShortTexts \cup LineTexts

\* Item texts: plain, bullet-like, with leading whitespace, empty, with a
\* line break.
ItemTexts == {<<"a">>, <<"-", " ", "b">>, <<" ", "c">>, <<>>, <<"d", "\n", "e">>}

\* Outlines of up to MaxItems items with every sequence of depths below
\* MaxItems; one item carries any of ItemTexts, the others the text 'a'.
InputOutlines ==
  {<<>>} \cup
  UNION {
    {[i \in 1..n |-> [text |-> IF i = k THEN t ELSE <<"a">>, depth |-> depths[i]]] :
       depths \in [1..n -> 0..(MaxItems - 1)], k \in 1..n, t \in ItemTexts} :
    n \in 1..MaxItems}

\* Trees of up to MaxTreeNodes nodes: node 1 is the root, the parent of
\* node i is a node before it and the edges come in any order.
TreeNodeId(i) == IF i = 1 THEN "root" ELSE "n" \o ToString(i)
TreeLabel(i) == IF i = 1 THEN <<"R">> ELSE <<"t", ToString(i)>>
\* The y-positions of the nodes ascend or descend with the node number.
TreeY(i, dir) == IF dir = "down" THEN Px(10 * i) ELSE Px(100 - 10 * i)

Perms(S) ==
  {f \in [1..Cardinality(S) -> S] : \A i, j \in 1..Cardinality(S) : i # j => f[i] # f[j]}

InputTrees ==
  UNION {
    {[nodes |-> [i \in 1..n |->
                   Node(TreeNodeId(i), TreeLabel(i), 0, TreeY(i, dir),
                        "undefined", i = 1)],
      edges |-> [k \in 1..(n - 1) |-> Edge(TreeNodeId(parent[order[k]]), TreeNodeId(order[k]))]] :
       parent \in {p \in [2..n -> 1..n] : \A i \in 2..n : p[i] < i},
       order \in Perms(2..n),
       dir \in {"down", "up"}} :
    n \in 1..MaxTreeNodes}

\* What the pipeline holds after the steps applied so far.
Holding ==
  IF steps = <<>> THEN src.kind
  ELSE IF steps[Len(steps)] = "outlineToText" THEN "text"
  ELSE IF steps[Len(steps)] = "outlineToGraph" THEN "graph"
  ELSE "outline"

InitPipeline ==
  /\ editingNodeId = NULL
  /\ canvas = DefaultCanvas
  /\ created = 0
  /\ last = NoCall
  /\ steps = <<>>
  /\ savedMap = NoMap
  /\ outlineDraft = <<>>
  /\ isOutlineFocused = FALSE
  /\ app = NoApp

InitFromText ==
  /\ InitPipeline
  /\ text \in InputTexts
  /\ src = [kind |-> "text", text |-> text]
  /\ outline = <<>>
  /\ nodes = <<>>
  /\ edges = <<>>

InitFromOutline ==
  /\ InitPipeline
  /\ outline \in InputOutlines
  /\ src = [kind |-> "outline", outline |-> outline]
  /\ text = <<>>
  /\ nodes = <<>>
  /\ edges = <<>>

InitFromTree ==
  /\ InitPipeline
  /\ \E t \in InputTrees :
       /\ nodes = t.nodes
       /\ edges = t.edges
       /\ src = [kind |-> "graph", nodes |-> t.nodes, edges |-> t.edges]
  /\ text = <<>>
  /\ outline = <<>>

InitOutline == InitFromText \/ InitFromOutline \/ InitFromTree

ParseOutlineText ==
  /\ Holding = "text"
  /\ Len(steps) < MaxSteps
  /\ outline' = parseOutlineText(text)
  /\ steps' = Append(steps, "parseOutlineText")
  /\ UNCHANGED <<nodes, edges, editingNodeId, canvas, created, last, text, src, savedMap,
               outlineDraft, isOutlineFocused, app>>

\* last keeps the text held before this call.
OutlineToText ==
  /\ Holding = "outline"
  /\ Len(steps) < MaxSteps
  /\ text' = outlineToText(outline)
  /\ last' = [op |-> "outlineToText", text |-> text]
  /\ steps' = Append(steps, "outlineToText")
  /\ UNCHANGED <<nodes, edges, editingNodeId, canvas, created, outline, src, savedMap,
               outlineDraft, isOutlineFocused, app>>

OutlineToGraph ==
  /\ Holding = "outline"
  /\ Len(steps) < MaxSteps
  /\ LET g == outlineToGraph(outline)
     IN nodes' = g.nodes /\ edges' = g.edges
  /\ steps' = Append(steps, "outlineToGraph")
  /\ UNCHANGED <<editingNodeId, canvas, created, last, text, outline, src, savedMap,
               outlineDraft, isOutlineFocused, app>>

BuildOutline ==
  /\ Holding = "graph"
  /\ Len(steps) < MaxSteps
  /\ outline' = buildOutline(nodes, edges)
  /\ steps' = Append(steps, "buildOutline")
  /\ UNCHANGED <<nodes, edges, editingNodeId, canvas, created, last, text, src, savedMap,
               outlineDraft, isOutlineFocused, app>>

NextOutline == ParseOutlineText \/ OutlineToText \/ OutlineToGraph \/ BuildOutline

SpecOutline == InitOutline /\ [][NextOutline]_vars

(***************************************************************************)
(* Properties of lib/outline.                                              *)
(***************************************************************************)
LastStep == IF steps = <<>> THEN "none" ELSE steps[Len(steps)]

\* First depth 0, every later depth between 1 and the previous depth + 1.
NormalizedDepths(items) ==
  Len(items) > 0 =>
    /\ items[1].depth = 0
    /\ \A i \in 2..Len(items) :
         1 <= items[i].depth /\ items[i].depth <= items[i - 1].depth + 1

\* The items of the lines of a text before normalization.
RawItems(t) ==
  LET lines == split(t)
  IN SelectSeq([i \in 1..Len(lines) |-> parseOutlineLine(lines[i])],
               LAMBDA item : item # NoItem)

\* C5: whatever the text, parseOutlineText returns a first item of depth 0
\* and later items of depth between 1 and the previous depth + 1.
C5_ParseNormalizes == LastStep = "parseOutlineText" => NormalizedDepths(outline)

\* A text of three or more items was parsed in which one line is indented
\* more than one level deeper than the item before it.
C5_Witness ==
  /\ steps = <<"parseOutlineText">>
  /\ Len(outline) >= 3
  /\ \E i \in 2..Len(outline) : RawItems(src.text)[i].depth > outline[i - 1].depth + 1

\* The text has no line break, no leading or trailing whitespace and is
\* not empty.
CleanText(t) == t # <<>> /\ trim(t) = t /\ "\n" \notin Range(t)

RoundTripFromOutline ==
  /\ src.kind = "outline"
  /\ steps = <<"outlineToText", "parseOutlineText", "outlineToText">>

\* C6 as stated: for every valid non-degenerate outline x (valid depths; at
\* least one item and no empty item text),
\* outlineToText(parseOutlineText(outlineToText(x))) = outlineToText(x).
C6_RoundTripAnyText ==
  (/\ RoundTripFromOutline
   /\ Len(src.outline) > 0
   /\ NormalizedDepths(src.outline)
   /\ \A i \in 1..Len(src.outline) : src.outline[i].text # <<>>) =>
    text = last.text

\* C6 amended: the round trip holds for every outline x with valid depths
\* whose item texts are non-empty, free of line breaks and free of leading
\* and trailing whitespace.
C6_RoundTripCleanText ==
  (/\ RoundTripFromOutline
   /\ Len(src.outline) > 0
   /\ NormalizedDepths(src.outline)
   /\ \A i \in 1..Len(src.outline) : CleanText(src.outline[i].text)) =>
    text = last.text

\* The round trip of a three-level outline holding a bullet-like text.
C6_Witness ==
  /\ RoundTripFromOutline
  /\ Len(src.outline) = 3
  /\ NormalizedDepths(src.outline)
  /\ src.outline[3].depth = 2
  /\ \A i \in 1..3 : CleanText(src.outline[i].text)
  /\ \E i \in 1..3 : src.outline[i].text = <<"-", " ", "b">>

\* C7: with t = outlineToText(parseOutlineText(s)) for any text s,
\* outlineToText(parseOutlineText(t)) = t.
C7_SerializedParseIsFixedPoint ==
  (/\ src.kind = "text"
   /\ steps = <<"parseOutlineText", "outlineToText", "parseOutlineText", "outlineToText">>) =>
    text = last.text

\* Parse and serialize were applied twice to a text of several items that
\* the first pass changed.
C7_Witness ==
  /\ src.kind = "text"
  /\ steps = <<"parseOutlineText", "outlineToText", "parseOutlineText", "outlineToText">>
  /\ Len(outline) >= 3
  /\ outline[3].depth = 2
  /\ text # src.text

\* The ids of a graph in the order of a pre-order walk from its roots that
\* follows the edge list.
RECURSIVE PreOrderFrom(_, _)
PreOrderFrom(id, es) ==
  LET children == getChildrenOf(id, es)
  IN <<id>> \o Concat([i \in 1..Len(children) |-> PreOrderFrom(children[i], es)])

PreOrderIds(ns, es) ==
  LET roots == SelectSeq(ns, LAMBDA node : node.id \notin Targets(es))
  IN Concat([i \in 1..Len(roots) |-> PreOrderFrom(roots[i].id, es)])

\* Position of an id in a sequence of ids, 0 when absent.
IndexOf(ids, id) == FirstIndex({i \in 1..Len(ids) : ids[i] = id})

\* C8: outlineToGraph(buildOutline(nodes, edges)) of a tree has as many
\* nodes and edges as the tree, and node for node in pre-order the same
\* label and the parent at the same pre-order index.
C8_GraphRoundTrip ==
  (src.kind = "graph" /\ steps = <<"buildOutline", "outlineToGraph">>) =>
    LET pre == PreOrderIds(src.nodes, src.edges)
        post == PreOrderIds(nodes, edges)
    IN /\ Len(nodes) = Len(src.nodes)
       /\ Len(edges) = Len(src.edges)
       /\ Len(post) = Len(pre)
       /\ \A i \in 1..Len(pre) :
            /\ NodeById(nodes, post[i]).label = NodeById(src.nodes, pre[i]).label
            /\ IndexOf(post, getParentId(post[i], edges))
                 = IndexOf(pre, getParentId(pre[i], src.edges))

\* A tree of four nodes that is three levels deep went through the round
\* trip.
C8_Witness ==
  /\ src.kind = "graph"
  /\ steps = <<"buildOutline", "outlineToGraph">>
  /\ Len(src.nodes) = 4
  /\ \E i \in 1..Len(outline) : outline[i].depth = 2

\* Distance of a node from the root along parent edges.
RECURSIVE DistanceToRoot(_, _)
DistanceToRoot(id, es) ==
  IF getParentId(id, es) = NULL THEN 0 ELSE 1 + DistanceToRoot(getParentId(id, es), es)

\* Position in the outline of the item of a node (labels of the input
\* trees are pairwise distinct).
ItemIndex(items, node) == FirstIndex({i \in 1..Len(items) : items[i].text = node.label})

\* C9: buildOutline emits one item per node at the depth of its distance
\* from the root, parents before children, and the children of a node in
\* ascending order of y, whatever the edge order.
C9_ChildrenByY ==
  (src.kind = "graph" /\ steps = <<"buildOutline">>) =>
    /\ Len(outline) = Len(nodes)
    /\ \A i \in 1..Len(nodes) :
         /\ ItemIndex(outline, nodes[i]) # 0
         /\ outline[ItemIndex(outline, nodes[i])].depth = DistanceToRoot(nodes[i].id, edges)
    /\ \A i, j \in 1..Len(nodes) :
         (/\ getParentId(nodes[i].id, edges) # NULL
          /\ getParentId(nodes[i].id, edges) = getParentId(nodes[j].id, edges)
          /\ nodes[i].y < nodes[j].y) =>
           ItemIndex(outline, nodes[i]) < ItemIndex(outline, nodes[j])

\* C10: for a normalized outline of n >= 1 items outlineToGraph returns n
\* nodes in outline order with distinct ids, the first being 'root', and
\* n - 1 edges that make each later item a child of the nearest item before
\* it with a smaller depth: a tree rooted at 'root'.
C10_OutlineToGraphTree ==
  (LastStep = "outlineToGraph" /\ Len(outline) >= 1 /\ NormalizedDepths(outline)) =>
    LET n == Len(outline)
    IN /\ Len(nodes) = n
       /\ \A i \in 1..n : nodes[i].label = outline[i].text
       /\ nodes[1].id = "root"
       /\ Len(edges) = n - 1
       /\ \A i \in 2..n :
            LET nearer == {k \in 1..(i - 1) : outline[k].depth < outline[i].depth}
            IN /\ Cardinality(InEdges(nodes[i].id, edges)) = 1
               /\ getParentId(nodes[i].id, edges) = nodes[Max(nearer)].id
       /\ IsTree(nodes, edges)
       /\ getRootId(nodes, edges) = "root"

\* An outline of four items that steps back by one level was turned into
\* a graph.
C10_Witness ==
  /\ LastStep = "outlineToGraph"
  /\ NormalizedDepths(outline)
  /\ Len(outline) >= 4
  /\ \E i \in 2..Len(outline) : outline[i].depth < outline[i - 1].depth
  /\ \E i \in 2..Len(outline) : outline[i].depth < outline[i - 1].depth


(***************************************************************************)
(* components/MindMapEditor: the editor's state under its commands.        *)
(* Key presses are taken whether or not a node is being edited: which      *)
(* element holds the keyboard focus is state of the page, not of the       *)
(* editor.                                                                 *)
(***************************************************************************)
initialNodes == <<Node("root", CentralIdea, Px(600), Px(360), "center", TRUE)>>

initialEdges == <<>>

selectedNodeId(ns) ==
  LET k == FirstIndex({i \in 1..Len(ns) : ns[i].selected})
  IN IF k # 0 THEN ns[k].id
     ELSE IF Len(ns) > 0 THEN ns[1].id ELSE NULL

\* Mutant of selectNode: the nodes selected before stay selected.
selectNodeAlso(ns, nodeId) ==
  [i \in 1..Len(ns) |-> [ns[i] EXCEPT !.selected = (ns[i].selected \/ ns[i].id = nodeId)]]

selectNode(ns, nodeId) == [i \in 1..Len(ns) |-> [ns[i] EXCEPT !.selected = (ns[i].id = nodeId)]]

resolveEdgeHandles(sourceId, targetSide, rootId) ==
  [sourceHandle |-> IF sourceId = rootId
                    THEN (IF targetSide = "left" THEN "source-left" ELSE "source-right")
                    ELSE "undefined",
   targetHandle |-> IF targetSide = "left" THEN "target-right" ELSE "target-left"]

\* applyLayout: the .map setting selected on the positioned nodes.
markSelected(ns, selectedId) ==
  [i \in 1..Len(ns) |-> [ns[i] EXCEPT !.selected = (selectedId # NULL /\ ns[i].id = selectedId)]]

\* applyLayout: { arrangedNodes, arrangedEdges }, the edges with their
\* handles resolved against the arranged nodes.
arrangeEdges(arrangedNodes, nextEdges) ==
  [arrangedNodes |-> arrangedNodes,
   arrangedEdges |->
     [i \in 1..Len(nextEdges) |->
        LET targetSide == IF nextEdges[i].target \in NodeIds(arrangedNodes)
                             /\ FindNode(arrangedNodes, nextEdges[i].target).side = "left"
                          THEN "left" ELSE "right"
            handles == resolveEdgeHandles(nextEdges[i].source, targetSide,
                                          getRootId(arrangedNodes, nextEdges))
        IN [nextEdges[i] EXCEPT !.sourceHandle = handles.sourceHandle,
                                !.targetHandle = handles.targetHandle]]]

\* The canvas' bounding box is the variable canvas.
applyLayout(nextNodes, nextEdges, selectedId) ==
  arrangeEdges(markSelected(positionTree(nextNodes, nextEdges,
                                         [centerX |-> canvas.width \div 2,
                                          centerY |-> canvas.height \div 2,
                                          canvasWidth |-> canvas.width]),
                            selectedId),
               nextEdges)

\* setNodes(arrangedNodes); setEdges(arrangedEdges); setEditingNodeId(editing)
setArranged(arranged, editing) ==
  /\ nodes' = arranged.arrangedNodes
  /\ edges' = arranged.arrangedEdges
  /\ editingNodeId' = editing

\* addChild: what follows the call of addChildNode, next being its result.
layoutAdded(next) ==
  setArranged(applyLayout(next.nodes, next.edges, next.newNodeId), next.newNodeId)

\* addChild(parentId, true)
addChild(parentId) ==
  layoutAdded(addChildNode([nodes |-> nodes, edges |-> edges, parentId |-> parentId,
                            canvasWidth |-> canvas.width, canvasHeight |-> canvas.height,
                            newId |-> createNodeId(created + 1)]))

\* Mutant of addSibling: the new node becomes a child of nodeId itself.
addSiblingBelow(nodeId) == addChild(nodeId) /\ created' = created + 1

\* addSibling(nodeId, true)
addSibling(nodeId) ==
  IF getParentId(nodeId, edges) = NULL
  THEN UNCHANGED <<nodes, edges, editingNodeId, created>>
  ELSE addChild(getParentId(nodeId, edges)) /\ created' = created + 1

\* removeSelected: what follows the call of removeNodeAndAdoptChildren, next
\* being its result.
layoutRemoved(next) ==
  setArranged(applyLayout(next.nodes, next.edges, next.selectedAfterDeleteId), NULL)

\* Mutant of removeSelected: the root is not protected.
removeSelectedUnguarded ==
  IF selectedNodeId(nodes) = NULL
  THEN UNCHANGED <<nodes, edges, editingNodeId>>
  ELSE layoutRemoved(removeNodeAndAdoptChildren([nodes |-> nodes, edges |-> edges,
                                                 nodeId |-> selectedNodeId(nodes)]))

\* removeSelected()
removeSelected ==
  IF selectedNodeId(nodes) = NULL \/ selectedNodeId(nodes) = "root"
  THEN UNCHANGED <<nodes, edges, editingNodeId>>
  ELSE layoutRemoved(removeNodeAndAdoptChildren([nodes |-> nodes, edges |-> edges,
                                                 nodeId |-> selectedNodeId(nodes)]))

\* Mutant of moveSelection: the index wraps around at both ends.
moveSelectionWrapping(delta, order) ==
  LET currentIndex == MaxOf(0, IndexOf(order, selectedNodeId(nodes)) - 1)
      nextIndex == (currentIndex + delta + Len(order)) % Len(order)
  IN nodes' = selectNode(nodes, order[nextIndex + 1])

\* moveSelection(delta), for a non-empty traversal order.
moveSelection(delta, order) ==
  LET currentIndex == MaxOf(0, IndexOf(order, selectedNodeId(nodes)) - 1)
      nextIndex == MinOf(Len(order) - 1, MaxOf(0, currentIndex + delta))
  IN nodes' = selectNode(nodes, order[nextIndex + 1])

\* organizeMap()
organizeMap ==
  IF Len(nodes) = 0
  THEN UNCHANGED <<nodes, edges, editingNodeId>>
  ELSE setArranged(applyLayout(nodes, edges,
                               IF selectedNodeId(nodes) # NULL THEN selectedNodeId(nodes)
                               ELSE getRootId(nodes, edges)),
                   NULL)

\* Outline drafts typed into the outline panel: an empty one and one of a
\* topic with two subtopics.
OutlineDrafts ==
  {<<>>,
   join(<<<<"-", " ", "a">>, <<" ", " ", "-", " ", "b">>, <<" ", " ", "-", " ", "c">>>>)}

\* The editor after mounting: the initial-layout effect has arranged
\* initialNodes; the vault holds no map.
Init ==
  /\ canvas = DefaultCanvas
  /\ \E arranged \in {applyLayout(initialNodes, initialEdges,
                                   getRootId(initialNodes, initialEdges))} :
       nodes = arranged.arrangedNodes /\ edges = arranged.arrangedEdges
  /\ editingNodeId = NULL
  /\ created = 0
  /\ last = NoCall
  /\ text = <<>>
  /\ outline = <<>>
  /\ src = [kind |-> "none"]
  /\ steps = <<>>
  /\ savedMap = NoMap
  /\ outlineDraft = <<>>
  /\ isOutlineFocused = FALSE
  /\ app = NoApp

\* What the commands leave alone: the canvas and the outline pipeline.
Untouched == UNCHANGED <<canvas, text, outline, src, steps, outlineDraft, isOutlineFocused, app>>

\* Enter: addChild(selectedNodeId, true).
Enter ==
  /\ created < MaxEditorCreated
  /\ selectedNodeId(nodes) # NULL
  /\ addChild(selectedNodeId(nodes))
  /\ created' = created + 1
  /\ last' = [op |-> "addChild", newNodeId |-> createNodeId(created + 1)]
  /\ UNCHANGED savedMap
  /\ Untouched

\* Tab: addSibling(selectedNodeId, true).
Tab ==
  /\ created < MaxEditorCreated
  /\ selectedNodeId(nodes) # NULL
  /\ addSibling(selectedNodeId(nodes))
  /\ last' = [op |-> "addSibling",
              newNodeId |-> IF getParentId(selectedNodeId(nodes), edges) = NULL THEN NULL
                            ELSE createNodeId(created + 1)]
  /\ UNCHANGED savedMap
  /\ Untouched

\* Delete or Backspace: removeSelected(). last keeps the id that was
\* selected when the key was pressed, and the id of its parent.
Delete ==
  /\ removeSelected
  /\ last' = [op |-> "removeSelected", selected |-> selectedNodeId(nodes),
              parent |-> getParentId(selectedNodeId(nodes), edges)]
  /\ UNCHANGED <<created, savedMap>>
  /\ Untouched

\* ArrowDown, ArrowUp: moveSelection(1), moveSelection(-1). last keeps the
\* direction, the id that was selected and the traversal order of the graph
\* when the key was pressed.
Arrow ==
  /\ \E delta \in {1, -1} :
       /\ IF Len(nodes) = 0 \/ Len(getTraversalOrder(nodes, edges)) = 0
          THEN UNCHANGED nodes
          ELSE moveSelection(delta, getTraversalOrder(nodes, edges))
       /\ last' = [op |-> "moveSelection", delta |-> delta,
                   selected |-> selectedNodeId(nodes),
                   order |-> getTraversalOrder(nodes, edges)]
  /\ UNCHANGED <<edges, editingNodeId, created, savedMap>>
  /\ Untouched

\* onNodeClick: selectNode(node.id).
NodeClick ==
  /\ \E nodeId \in NodeIds(nodes) : nodes' = selectNode(nodes, nodeId)
  /\ last' = [op |-> "selectNode"]
  /\ UNCHANGED <<edges, editingNodeId, created, savedMap>>
  /\ Untouched

\* Ctrl+L or the Organize button: organizeMap().
OrganizeMap ==
  /\ organizeMap
  /\ last' = [op |-> "organizeMap"]
  /\ UNCHANGED <<created, savedMap>>
  /\ Untouched

\* The load effect of the editor on a graph with nodes.
loadArranged(nextNodes, nextEdges) ==
  setArranged(applyLayout(nextNodes, nextEdges, getRootId(nextNodes, nextEdges)), NULL)

\* The load effect of the editor on a new loadGraph.
LoadGraph(loadGraph) ==
  /\ loadArranged(IF Len(loadGraph.nodes) > 0 THEN loadGraph.nodes ELSE initialNodes,
                  loadGraph.edges)
  /\ last' = [op |-> "load"]
  /\ UNCHANGED created
  /\ Untouched

\* Ctrl+N or the New button: createNewMap() selects a new, empty map and
\* loads it.
CreateNewMap ==
  /\ LoadGraph(createEmptyMap)
  /\ savedMap' = createEmptyMap

\* handleOutlineChange(nextText) of the outline panel.
OutlineChange ==
  /\ \E nextText \in OutlineDrafts : LoadGraph(outlineToGraph(parseOutlineText(nextText)))
  /\ UNCHANGED savedMap

\* loadSavedMapById(mapId) of the selected map.
LoadSavedMap ==
  /\ savedMap # NoMap
  /\ LoadGraph(savedMap)
  /\ UNCHANGED savedMap

\* useAutosave: once a map is selected, the editor's nodes and edges are
\* persisted as the selected map.
Autosave ==
  /\ savedMap # NoMap
  /\ Len(nodes) > 0
  /\ savedMap' = [nodes |-> nodes, edges |-> edges]
  /\ UNCHANGED <<nodes, edges, editingNodeId, created, last>>
  /\ Untouched

Next ==
  \/ Enter
  \/ Tab
  \/ Delete
  \/ Arrow
  \/ NodeClick
  \/ OrganizeMap
  \/ CreateNewMap
  \/ OutlineChange
  \/ LoadSavedMap
  \/ Autosave

Spec == Init /\ [][Next]_vars

\* C3: in every state the editor commands reach, a delete command issued
\* while the root node is the selected node leaves the node list and the
\* edge list unchanged, so the root node stays in place.
C3_RootProtected ==
  [][(/\ last'.op = "removeSelected"
      /\ last'.selected = getRootId(nodes, edges)) =>
       (/\ nodes' = nodes
        /\ edges' = edges
        /\ getRootId(nodes', edges') = getRootId(nodes, edges))]_vars

\* Delete was pressed while the root of a map of three or more nodes was
\* selected.
C3_Witness ==
  /\ last.op = "removeSelected"
  /\ last.selected = getRootId(nodes, edges)
  /\ Len(nodes) >= 3
  /\ Len(edges) >= 2


(***************************************************************************)
(* Specification SpecLayout: positionTree applied to a tree and a viewport *)
(* drawn from bounded sets.  The tree is one of InputTrees whose nodes     *)
(* carry no side, all the same side, or sides that alternate; src keeps    *)
(* the arguments of the call.                                              *)
(***************************************************************************)
\* The trees handed to positionTree: every shape of up to MaxLayoutNodes
\* nodes, with the edge array in ascending or in descending order of the
\* targets, so that the children of a node come in either order.
LayoutTrees ==
  UNION {
    {[nodes |-> [i \in 1..n |->
                   Node(TreeNodeId(i), TreeLabel(i), 0, 0, "undefined", i = 1)],
      edges |-> [k \in 1..(n - 1) |->
                   LET c == IF order = "ascending" THEN k + 1 ELSE n + 1 - k
                   IN Edge(TreeNodeId(parent[c]), TreeNodeId(c))]] :
       parent \in {p \in [2..n -> 1..n] : \A i \in 2..n : p[i] < i},
       order \in {"ascending", "descending"}} :
    n \in 1..MaxLayoutNodes}

SidePatterns == {"none", "left", "right", "mixed", "center", "partial"}

\* data.side of node i before the layout, under a pattern.
SideBefore(i, pattern) ==
  IF pattern = "none" THEN "undefined"
  ELSE IF pattern = "mixed" THEN (IF i % 2 = 0 THEN "left" ELSE "right")
  ELSE IF pattern = "partial" THEN (IF i % 3 = 0 THEN "right" ELSE "undefined")
  ELSE pattern

\* Viewports: the defaults of positionTree, the editor's default canvas, a
\* narrow canvas, and a canvas whose centre is close to the left border.
Viewports ==
  {DefaultOptions,
   [canvasWidth |-> Px(1200), centerX |-> Px(600), centerY |-> Px(360)],
   [canvasWidth |-> Px(600), centerX |-> Px(300), centerY |-> Px(200)],
   [canvasWidth |-> Px(1200), centerX |-> Px(100), centerY |-> Px(360)]}

InitLayout ==
  /\ \E t \in LayoutTrees, pattern \in SidePatterns, options \in Viewports :
       /\ nodes = [i \in 1..Len(t.nodes) |-> [t.nodes[i] EXCEPT !.side = SideBefore(i, pattern)]]
       /\ edges = t.edges
       /\ src = [kind |-> "layout", nodes |-> nodes, edges |-> t.edges, options |-> options]
  /\ editingNodeId = NULL
  /\ canvas = DefaultCanvas
  /\ created = 0
  /\ last = NoCall
  /\ text = <<>>
  /\ outline = <<>>
  /\ steps = <<>>
  /\ savedMap = NoMap
  /\ outlineDraft = <<>>
  /\ isOutlineFocused = FALSE
  /\ app = NoApp

PositionTree ==
  /\ steps = <<>>
  /\ nodes' = positionTree(nodes, edges, src.options)
  /\ steps' = <<"positionTree">>
  /\ UNCHANGED <<edges, editingNodeId, canvas, created, last, text, outline, src, savedMap,
               outlineDraft, isOutlineFocused, app>>

\* positionTree applied to its own output, with the same edges and options.
PositionAgain ==
  /\ steps = <<"positionTree">>
  /\ nodes' = positionTree(nodes, edges, src.options)
  /\ steps' = <<"positionTree", "positionTree">>
  /\ last' = [op |-> "positionTree", nodes |-> nodes]
  /\ UNCHANGED <<edges, editingNodeId, canvas, created, text, outline, src, savedMap,
                 outlineDraft, isOutlineFocused, app>>

\* chooseRootChildSide(rootId, nodes, edges, canvasWidth, rootCenterX) on
\* the laid-out tree, as addChildNode calls it for a new child of the root.
ChooseRootChildSide ==
  /\ steps = <<"positionTree">>
  /\ last' = [op |-> "chooseRootChildSide",
              side |-> chooseRootChildSide(getRootId(nodes, edges), nodes, edges,
                                           src.options.canvasWidth,
                                           FindNode(nodes, getRootId(nodes, edges)).x)]
  /\ steps' = <<"positionTree", "chooseRootChildSide">>
  /\ UNCHANGED <<nodes, edges, editingNodeId, canvas, created, text, outline, src, savedMap,
                 outlineDraft, isOutlineFocused, app>>

NextLayout == PositionTree \/ PositionAgain \/ ChooseRootChildSide

SpecLayout == InitLayout /\ [][NextLayout]_vars

\* positionTree has been applied to the tree of src.
Positioned == src.kind = "layout" /\ steps = <<"positionTree">>

\* C11: positionTree places the root at (centerX, centerY) with side
\* 'center' and gives every other node of the tree the side 'left' or
\* 'right', for every tree and viewport.
C11_RootCentered ==
  Positioned =>
    \A i \in 1..Len(nodes) :
      IF nodes[i].id = getRootId(nodes, edges)
      THEN /\ nodes[i].x = src.options.centerX
           /\ nodes[i].y = src.options.centerY
           /\ nodes[i].side = "center"
      ELSE nodes[i].side \in {"left", "right"}

\* A tree of four nodes with branches on both sides was laid out around a
\* centre that is not the default one.
C11_Witness ==
  /\ Positioned
  /\ Len(nodes) >= 4
  /\ src.options # DefaultOptions
  /\ \E i, j \in 1..Len(nodes) : nodes[i].side = "left" /\ nodes[j].side = "right"


\* The vertical slices of two nodes, each of the height of the node's
\* subtreeSpan and centred on the node's y, do not overlap.
SlicesApart(a, b) ==
  LET childrenMap == getChildrenMap(edges)
      gap == IF a.y >= b.y THEN a.y - b.y ELSE b.y - a.y
  IN 2 * gap >= subtreeSpan(a.id, childrenMap) + subtreeSpan(b.id, childrenMap)

Siblings(a, b) ==
  /\ a.id # b.id
  /\ getParentId(a.id, edges) # NULL
  /\ getParentId(a.id, edges) = getParentId(b.id, edges)

\* C12 as stated: after positionTree the slices of any two children of the
\* same parent do not overlap, the children of the root included.
C12_SiblingSlicesApart ==
  Positioned =>
    \A i, j \in 1..Len(nodes) :
      Siblings(nodes[i], nodes[j]) => SlicesApart(nodes[i], nodes[j])

\* C12 amended: after positionTree the slices of any two children of the
\* same parent that lie on the same side of the root do not overlap.
C12_SameSideSlicesApart ==
  Positioned =>
    \A i, j \in 1..Len(nodes) :
      (Siblings(nodes[i], nodes[j]) /\ nodes[i].side = nodes[j].side) =>
        SlicesApart(nodes[i], nodes[j])

\* Two root children on the same side, one of them with two children of its
\* own, were laid out.
C12_Witness ==
  /\ Positioned
  /\ \E i, j \in 1..Len(nodes) :
       /\ Siblings(nodes[i], nodes[j])
       /\ getParentId(nodes[i].id, edges) = getRootId(nodes, edges)
       /\ nodes[i].side = nodes[j].side
       /\ Len(getChildrenOf(nodes[i].id, edges)) = 2

\* C13: positionTree gives no two nodes of a tree the same (x, y), and two
\* nodes on the same side at the same distance from the root lie at least
\* one node slot apart in y.
C13_NoOverlap ==
  Positioned =>
    \A i, j \in 1..Len(nodes) :
      i # j =>
        /\ <<nodes[i].x, nodes[i].y>> # <<nodes[j].x, nodes[j].y>>
        /\ (/\ nodes[i].side = nodes[j].side
            /\ DistanceToRoot(nodes[i].id, edges) = DistanceToRoot(nodes[j].id, edges)) =>
             /\ nodes[i].x = nodes[j].x
             /\ (nodes[i].y - nodes[j].y >= Px(NODE_SLOT)
                 \/ nodes[j].y - nodes[i].y >= Px(NODE_SLOT))

\* Two cousins, children of two different root children on one side, were
\* laid out.
C13_Witness ==
  /\ Positioned
  /\ \E i, j \in 1..Len(nodes) :
       /\ i # j
       /\ nodes[i].side = nodes[j].side
       /\ DistanceToRoot(nodes[i].id, edges) = 2
       /\ DistanceToRoot(nodes[j].id, edges) = 2
       /\ getParentId(nodes[i].id, edges) # getParentId(nodes[j].id, edges)

\* The horizontal step positionTree computed for the tree of src.
StepUsed ==
  computeXStep(src.options.canvasWidth,
               getDepth(getRootId(nodes, edges), getChildrenMap(edges)),
               src.options.centerX,
               \E i \in 1..Len(nodes) : nodes[i].side = "left",
               \E i \in 1..Len(nodes) : nodes[i].side = "right")

\* C20: after positionTree a node at distance d >= 1 from the root has
\* x = centerX - d * xStep on the left and x = centerX + d * xStep on the
\* right, and carries the side of its parent unless its parent is the root.
C20_HalfPlanes ==
  Positioned =>
    \A i \in 1..Len(nodes) :
      LET d == DistanceToRoot(nodes[i].id, edges)
          parentId == getParentId(nodes[i].id, edges)
      IN d >= 1 =>
           /\ nodes[i].side = "left" => nodes[i].x = src.options.centerX - d * StepUsed
           /\ nodes[i].side = "right" => nodes[i].x = src.options.centerX + d * StepUsed
           /\ nodes[i].side \in {"left", "right"}
           /\ parentId # getRootId(nodes, edges) =>
                nodes[i].side = FindNode(nodes, parentId).side

\* A chain three levels deep on the left of the root was laid out on the
\* narrow canvas, with a branch on the right.
C20_Witness ==
  /\ Positioned
  /\ src.options.canvasWidth = Px(600)
  /\ \E i \in 1..Len(nodes) :
       nodes[i].side = "left" /\ DistanceToRoot(nodes[i].id, edges) = 2
  /\ \E i \in 1..Len(nodes) : nodes[i].side = "right"


\* The last call was addChildNode with a parent that the input holds.
AddedChild == last.op = "addChildNode" /\ last.arg \in NodeIds(last.nodes)

\* C14: addChildNode with an existing parent returns the input nodes, all
\* deselected and otherwise unchanged, followed by one new node with the id
\* from createNodeId and the label 'New Topic', and the input edges followed
\* by one edge from parentId to the new node; the new node is the only
\* selected node and newNodeId is its id.
C14_AddChildFrame ==
  AddedChild =>
    LET n == Len(last.nodes)
        out == last.result.nodes
        newId == createNodeId(created)
    IN /\ Len(out) = n + 1
       /\ \A i \in 1..n : out[i] = [last.nodes[i] EXCEPT !.selected = FALSE]
       /\ out[n + 1].id = newId
       /\ out[n + 1].id \notin NodeIds(last.nodes)
       /\ out[n + 1].label = NewTopic
       /\ \A i \in 1..(n + 1) : out[i].selected <=> i = n + 1
       /\ last.result.edges = Append(last.edges, Edge(last.arg, newId))
       /\ last.result.newNodeId = newId

\* A child was added to a non-root parent while another node was selected.
C14_Witness ==
  /\ AddedChild
  /\ last.arg # "root"
  /\ \E i \in 1..Len(last.nodes) :
       last.nodes[i].selected /\ last.nodes[i].id # last.arg
  /\ Len(last.edges) >= 2


\* The ids of the nodes with selected = true.
SelectedIds == {nodes[i].id : i \in {k \in 1..Len(nodes) : nodes[k].selected}}

\* C15: in every state the editor commands reach, at most one node has
\* selected = true and the selected node is a node of the graph; after a
\* node was added it is the new node, and after a node was deleted it is
\* the deleted node's former parent.
C15_SingleSelection ==
  /\ Cardinality({k \in 1..Len(nodes) : nodes[k].selected}) <= 1
  /\ Len(nodes) > 0 => selectedNodeId(nodes) \in NodeIds(nodes)
  /\ (last.op \in {"addChild", "addSibling"} /\ last.newNodeId # NULL) =>
       /\ SelectedIds = {last.newNodeId}
       /\ last.newNodeId \in NodeIds(nodes)
  /\ (last.op = "removeSelected" /\ last.parent # NULL) =>
       /\ SelectedIds = {last.parent}
       /\ last.selected \notin NodeIds(nodes)

\* A node below a root child was deleted and its parent, not the root, is
\* selected.
C15_Witness ==
  /\ last.op = "removeSelected"
  /\ last.parent \notin {NULL, "root"}
  /\ SelectedIds = {last.parent}

\* C16: moveSelection(delta) selects the node at index
\* clamp(i + delta, 0, n - 1) of getTraversalOrder, i being the index of
\* the node selected before; at the last node a move forward and at the
\* first node a move backward leave the selection alone, and the selected
\* id is a node of the graph.
C16_MoveSelectionClamped ==
  (last.op = "moveSelection" /\ Len(last.order) > 0) =>
    LET n == Len(last.order)
        i == IndexOf(last.order, last.selected) - 1
        target == IF i + last.delta < 0 THEN 0
                  ELSE IF i + last.delta > n - 1 THEN n - 1
                  ELSE i + last.delta
    IN /\ i \in 0..(n - 1)
       /\ SelectedIds = {last.order[target + 1]}
       /\ last.order[target + 1] \in NodeIds(nodes)
       /\ (i = n - 1 /\ last.delta = 1) => SelectedIds = {last.selected}
       /\ (i = 0 /\ last.delta = -1) => SelectedIds = {last.selected}

\* The selection was moved forward from the last of at least three nodes.
C16_Witness ==
  /\ last.op = "moveSelection"
  /\ Len(last.order) >= 3
  /\ last.delta = 1
  /\ last.selected = last.order[Len(last.order)]
  /\ SelectedIds = {last.selected}

\* The selection was moved backward from the first of at least three nodes.
C16_WitnessFirst ==
  /\ last.op = "moveSelection"
  /\ Len(last.order) >= 3
  /\ last.delta = -1
  /\ last.selected = last.order[1]
  /\ SelectedIds = {last.selected}


(***************************************************************************)
(* lib/outlineSync and hooks/useOutline: the draft of the outline panel.   *)
(***************************************************************************)

\* '- Central Idea'
DefaultDraft == <<"-", " ">> \o CentralIdea

\* Mutant of deriveOutlineDraft: the draft is derived from the graph even
\* while the panel has the focus.
deriveDraftAlways(params) ==
  LET derived == buildOutline(params.nodes, params.edges)
  IN IF Len(derived) > 0 THEN outlineToText(derived) ELSE DefaultDraft

\* params = [nodes, edges, isFocused, currentDraft]
deriveOutlineDraft(params) ==
  IF params.isFocused THEN params.currentDraft
  ELSE LET derived == buildOutline(params.nodes, params.edges)
       IN IF Len(derived) > 0 THEN outlineToText(derived) ELSE DefaultDraft

\* The graphs the editor hands to useOutline: no nodes at all, the empty
\* map, and the trees of up to three nodes.
SyncGraphs ==
  {NoMap, createEmptyMap} \cup {t \in InputTrees : Len(t.nodes) <= 3}

\* What is typed into the outline panel.
TypedDrafts ==
  OutlineDrafts \cup {<<"-", " ", "a">>, <<"x">>, join(<<<<"a">>, <<"\t", "b">>>>)}

\* The effect of useOutline: setOutlineDraft(currentDraft =>
\* deriveOutlineDraft(...)), run with the graph and the focus given.
syncDraft(op, ns, es, isFocused, currentDraft) ==
  /\ outlineDraft' = deriveOutlineDraft([nodes |-> ns, edges |-> es,
                                         isFocused |-> isFocused,
                                         currentDraft |-> currentDraft])
  /\ last' = [op |-> op, nodes |-> ns, edges |-> es, isFocused |-> isFocused,
              currentDraft |-> currentDraft]

\* useOutline after mounting on the editor's initial graph.
InitSync ==
  /\ nodes = initialNodes
  /\ edges = initialEdges
  /\ outlineDraft = deriveOutlineDraft([nodes |-> initialNodes, edges |-> initialEdges,
                                        isFocused |-> FALSE, currentDraft |-> <<>>])
  /\ isOutlineFocused = FALSE
  /\ app = NoApp
  /\ editingNodeId = NULL
  /\ canvas = DefaultCanvas
  /\ created = 0
  /\ last = NoCall
  /\ text = <<>>
  /\ outline = <<>>
  /\ src = [kind |-> "none"]
  /\ steps = <<>>
  /\ savedMap = NoMap

\* The editor's graph changes (params.nodes, params.edges): the effect runs.
GraphChange ==
  /\ \E g \in SyncGraphs :
       /\ <<g.nodes, g.edges>> # <<nodes, edges>>
       /\ nodes' = g.nodes
       /\ edges' = g.edges
       /\ syncDraft("graphChange", g.nodes, g.edges, isOutlineFocused, outlineDraft)
  /\ UNCHANGED <<editingNodeId, canvas, created, text, outline, src, steps, savedMap,
                 isOutlineFocused, app>>

\* handleOutlineFocusChange(isFocused): the effect runs on the new focus.
OutlineFocusChange ==
  /\ \E isFocused \in BOOLEAN :
       /\ isFocused # isOutlineFocused
       /\ isOutlineFocused' = isFocused
       /\ syncDraft("focusChange", nodes, edges, isFocused, outlineDraft)
  /\ UNCHANGED <<nodes, edges, editingNodeId, canvas, created, text, outline, src, steps,
                 savedMap, app>>

\* handleOutlineChange(nextText) typed into the focused panel: the draft is
\* set, the graph of the text is loaded by the editor and the effect runs.
OutlineTyped ==
  /\ isOutlineFocused
  /\ \E nextText \in TypedDrafts :
       \E graph \in {outlineToGraph(parseOutlineText(nextText))} :
         /\ loadArranged(graph.nodes, graph.edges)
         /\ syncDraft("outlineChange", graph.nodes, graph.edges, isOutlineFocused, nextText)
  /\ UNCHANGED <<canvas, created, text, outline, src, steps, savedMap, isOutlineFocused, app>>

NextSync == GraphChange \/ OutlineFocusChange \/ OutlineTyped

SpecSync == InitSync /\ [][NextSync]_vars

\* The effect of useOutline has run.
Synced == last.op \in {"graphChange", "focusChange", "outlineChange"}

\* C18: deriveOutlineDraft returns currentDraft whenever isFocused is true,
\* whatever the graph is, so that a graph change under focus leaves the
\* draft alone; when not focused it returns
\* outlineToText(buildOutline(nodes, edges)), or '- Central Idea' when that
\* outline is empty.
C18_FocusedDraftKept ==
  Synced =>
    /\ last.isFocused => outlineDraft = last.currentDraft
    /\ (~last.isFocused /\ buildOutline(last.nodes, last.edges) # <<>>) =>
         outlineDraft = outlineToText(buildOutline(last.nodes, last.edges))
    /\ (~last.isFocused /\ buildOutline(last.nodes, last.edges) = <<>>) =>
         outlineDraft = DefaultDraft

\* The graph changed under focus to a tree whose outline text differs from
\* the draft, and the draft is the one typed before.
C18_Witness ==
  /\ last.op = "graphChange"
  /\ last.isFocused
  /\ Len(last.nodes) = 3
  /\ last.currentDraft = <<"x">>
  /\ outlineDraft = <<"x">>
  /\ outlineToText(buildOutline(nodes, edges)) # outlineDraft

\* The graph lost all its nodes while the panel was not focused.
C18_WitnessEmpty ==
  /\ last.op = "graphChange"
  /\ ~last.isFocused
  /\ nodes = <<>>
  /\ outlineDraft = DefaultDraft


(***************************************************************************)
(* lib/graphOps: createBranchColorLookup                                   *)
(***************************************************************************)

\* const BRANCH_COLORS of the editor.
BRANCH_COLORS == <<"#1f5ce1", "#03a66a", "#c26000", "#ab47bc", "#0d7a88", "#d83b4e">>

RootColor == "#111827"

\* parentByNode of createBranchColorLookup: the source of the last edge
\* into id, or NULL.
parentByNode(id, es) ==
  LET into == {i \in 1..Len(es) : es[i].target = id}
  IN IF into = {} THEN NULL ELSE es[Max(into)].source

\* The while loop of createBranchColorLookup: <<current, parent>> when it
\* ends.
RECURSIVE climbToBranch(_, _, _)
climbToBranch(current, rootId, es) ==
  LET parent == parentByNode(current, es)
  IN IF parent # NULL /\ parent # rootId THEN climbToBranch(parent, rootId, es)
     ELSE <<current, parent>>

\* rootChildren.forEach: the lookup with the first n root children set.
RECURSIVE colorBranches(_, _, _, _)
colorBranches(rootChildren, n, branchColors, lookup) ==
  IF n = 0 THEN lookup
  ELSE Put(colorBranches(rootChildren, n - 1, branchColors, lookup), rootChildren[n],
           branchColors[((n - 1) % Len(branchColors)) + 1])

\* nodes.forEach: the lookup after the first n nodes.
RECURSIVE colorNodes(_, _, _, _, _, _)
colorNodes(ns, n, rootId, es, branchColors, lookup) ==
  IF n = 0 THEN lookup
  ELSE LET before == colorNodes(ns, n - 1, rootId, es, branchColors, lookup)
           id == ns[n].id
           end == climbToBranch(id, rootId, es)
       IN IF id \in DOMAIN before THEN before
          ELSE IF end[2] = rootId
          THEN Put(before, id,
                   IF end[1] \in DOMAIN before THEN before[end[1]] ELSE branchColors[1])
          ELSE Put(before, id, branchColors[1])

\* Mutant of createBranchColorLookup: the root children are taken in edge
\* order.
colorLookupInEdgeOrder(ns, es, branchColors) ==
  IF Len(ns) = 0 THEN <<>>
  ELSE LET rootId == getRootId(ns, es)
           rootChildren == SelectSeq(getChildrenOf(rootId, es),
                                     LAMBDA id : id \in NodeIds(ns))
       IN colorNodes(ns, Len(ns), rootId, es, branchColors,
                     colorBranches(rootChildren, Len(rootChildren), branchColors,
                                   Put(<<>>, rootId, RootColor)))

\* The Map createBranchColorLookup returns, as a function from ids.
createBranchColorLookup(ns, es, branchColors) ==
  IF Len(ns) = 0 THEN <<>>
  ELSE LET rootId == getRootId(ns, es)
           rootChildren == sortByY(SelectSeq(getChildrenOf(rootId, es),
                                             LAMBDA id : id \in NodeIds(ns)), ns)
       IN colorNodes(ns, Len(ns), rootId, es, branchColors,
                     colorBranches(rootChildren, Len(rootChildren), branchColors,
                                   Put(<<>>, rootId, RootColor)))

\* The palettes handed to createBranchColorLookup: the one of the graphOps
\* test and the one of the editor.
Palettes == {<<"#aa0000", "#00aa00">>, BRANCH_COLORS}

InitColors ==
  /\ \E t \in InputTrees, branchColors \in Palettes :
       /\ nodes = t.nodes
       /\ edges = t.edges
       /\ src = [kind |-> "colors", branchColors |-> branchColors]
  /\ editingNodeId = NULL
  /\ canvas = DefaultCanvas
  /\ created = 0
  /\ last = NoCall
  /\ text = <<>>
  /\ outline = <<>>
  /\ steps = <<>>
  /\ savedMap = NoMap
  /\ outlineDraft = <<>>
  /\ isOutlineFocused = FALSE
  /\ app = NoApp

\* colorLookup of the editor: createBranchColorLookup(nodes, edges, palette).
CreateBranchColorLookup ==
  /\ steps = <<>>
  /\ last' = [op |-> "createBranchColorLookup",
              lookup |-> createBranchColorLookup(nodes, edges, src.branchColors)]
  /\ steps' = <<"createBranchColorLookup">>
  /\ UNCHANGED <<nodes, edges, editingNodeId, canvas, created, text, outline, src, savedMap,
                 outlineDraft, isOutlineFocused, app>>

NextColors == CreateBranchColorLookup

SpecColors == InitColors /\ [][NextColors]_vars

\* The root child that is id or an ancestor of id, for a node below the root.
RECURSIVE BranchOf(_, _)
BranchOf(id, es) ==
  IF DistanceToRoot(id, es) <= 1 THEN id ELSE BranchOf(getParentId(id, es), es)

\* The number of root children that lie above the root child id.
RankByY(id) ==
  Cardinality({c \in Range(getChildrenOf(getRootId(nodes, edges), edges)) :
                 FindNode(nodes, c).y < FindNode(nodes, id).y})

\* C19: createBranchColorLookup gives the root the colour '#111827', the
\* k-th root child in ascending y the colour branchColors[k mod length] and
\* every deeper node the colour of the root child above it; every node has
\* a colour.
C19_BranchColors ==
  last.op = "createBranchColorLookup" =>
    LET lookup == last.lookup
        branchColors == src.branchColors
    IN /\ DOMAIN lookup = NodeIds(nodes)
       /\ \A i \in 1..Len(nodes) :
            LET id == nodes[i].id
                d == DistanceToRoot(id, edges)
            IN /\ d = 0 => lookup[id] = RootColor
               /\ d = 1 => lookup[id] = branchColors[(RankByY(id) % Len(branchColors)) + 1]
               /\ d >= 2 => lookup[id] = lookup[BranchOf(id, edges)]

\* Three root children against a palette of two colours, listed against
\* their y order: the third in y order has the first colour again.
C19_Witness ==
  /\ last.op = "createBranchColorLookup"
  /\ Len(src.branchColors) = 2
  /\ Len(getChildrenOf("root", edges)) = 3
  /\ edges[1].target = "n4"
  /\ nodes[4].y < nodes[2].y
  /\ last.lookup["n2"] = last.lookup["n4"]
  /\ last.lookup["n3"] # last.lookup["n4"]

\* A grandchild of the root carries the colour of the second branch.
C19_WitnessDeep ==
  /\ last.op = "createBranchColorLookup"
  /\ \E i \in 1..Len(nodes) :
       /\ DistanceToRoot(nodes[i].id, edges) = 2
       /\ last.lookup[nodes[i].id] = src.branchColors[2]


(***************************************************************************)
(* lib/graphOps: getTraversalOrder                                         *)
(***************************************************************************)

\* The y-positions of the nodes of a graph handed to getTraversalOrder:
\* ascending or descending with the node number, equal in pairs, or all
\* equal.
TraversalY(i, ys) ==
  IF ys \in {"down", "up"} THEN TreeY(i, ys)
  ELSE IF ys = "pairs" THEN Px(10 * (i \div 2))
  ELSE Px(10)

\* Two nodes that point at each other: no root reaches them.
CycleEdges == <<Edge("c1", "c2"), Edge("c2", "c1")>>

\* The graphs handed to getTraversalOrder: every tree of up to MaxTreeNodes
\* nodes in every edge order, alone or with the two nodes of a cycle, one
\* before and one after the nodes of the tree.
TraversalGraphs ==
  UNION {
    {LET tree == [i \in 1..n |->
                    Node(TreeNodeId(i), TreeLabel(i), 0, TraversalY(i, ys),
                         "undefined", i = 1)]
         treeEdges == [k \in 1..(n - 1) |->
                         Edge(TreeNodeId(parent[order[k]]), TreeNodeId(order[k]))]
     IN IF extra = "cycle"
        THEN [nodes |-> <<Node("c2", <<"c", "2">>, 0, Px(5), "undefined", FALSE)>> \o tree
                        \o <<Node("c1", <<"c", "1">>, 0, Px(5), "undefined", FALSE)>>,
              edges |-> treeEdges \o CycleEdges]
        ELSE [nodes |-> tree, edges |-> treeEdges] :
       parent \in {p \in [2..n -> 1..n] : \A i \in 2..n : p[i] < i},
       order \in Perms(2..n),
       ys \in {"down", "up", "pairs", "flat"},
       extra \in {"none", "cycle"}} :
    n \in 1..MaxTreeNodes}

InitTraversal ==
  /\ \E g \in TraversalGraphs :
       /\ nodes = g.nodes
       /\ edges = g.edges
  /\ src = [kind |-> "traversal"]
  /\ editingNodeId = NULL
  /\ canvas = DefaultCanvas
  /\ created = 0
  /\ last = NoCall
  /\ text = <<>>
  /\ outline = <<>>
  /\ steps = <<>>
  /\ savedMap = NoMap
  /\ outlineDraft = <<>>
  /\ isOutlineFocused = FALSE
  /\ app = NoApp

\* order = getTraversalOrder(nodes, edges)
GetTraversalOrder ==
  /\ steps = <<>>
  /\ last' = [op |-> "getTraversalOrder", order |-> getTraversalOrder(nodes, edges)]
  /\ steps' = <<"getTraversalOrder">>
  /\ UNCHANGED <<nodes, edges, editingNodeId, canvas, created, text, outline, src, savedMap,
                 outlineDraft, isOutlineFocused, app>>

NextTraversal == GetTraversalOrder

SpecTraversal == InitTraversal /\ [][NextTraversal]_vars

\* The ids a root of the graph reaches.
ReachedIds ==
  ReachableFrom({nodes[i].id : i \in RootsOf(nodes, edges)}, edges) \cap NodeIds(nodes)

\* a comes before b among the children of their parent: it lies above b,
\* or level with b and its edge comes first.
SiblingBefore(a, b) ==
  \/ FindNode(nodes, a).y < FindNode(nodes, b).y
  \/ /\ FindNode(nodes, a).y = FindNode(nodes, b).y
     /\ Min(InEdges(a, edges)) < Min(InEdges(b, edges))

\* C17: getTraversalOrder returns every node id once; the ids a root
\* reaches form a pre-order walk (the root first, every node directly
\* followed by the block of its descendants, the children of a node in
\* ascending y with ties in edge order), and the ids no root reaches follow
\* at the end in the order of the node list.
C17_TraversalPreOrder ==
  last.op = "getTraversalOrder" =>
    LET order == last.order
        pos(id) == IndexOf(order, id)
    IN /\ Len(order) = Len(nodes)
       /\ Range(order) = NodeIds(nodes)
       /\ order[1] = getRootId(nodes, edges)
       /\ \A id \in ReachedIds :
            LET below == ReachableFrom({id}, edges)
            IN {pos(d) : d \in below} = pos(id)..(pos(id) + Cardinality(below) - 1)
       /\ \A a, b \in ReachedIds :
            (/\ a # b
             /\ getParentId(a, edges) # NULL
             /\ getParentId(a, edges) = getParentId(b, edges)
             /\ SiblingBefore(a, b)) => pos(a) < pos(b)
       /\ \A i, j \in 1..Len(nodes) :
            (nodes[i].id \notin ReachedIds) =>
              /\ nodes[j].id \in ReachedIds => pos(nodes[j].id) < pos(nodes[i].id)
              /\ (nodes[j].id \notin ReachedIds /\ j < i) => pos(nodes[j].id) < pos(nodes[i].id)

\* A tree of four nodes whose y-positions run against the edge order and
\* against the node order was walked: the last child comes first.
C17_Witness ==
  /\ last.op = "getTraversalOrder"
  /\ Len(nodes) = 4
  /\ getChildrenOf("root", edges) = <<"n2", "n3">>
  /\ FindNode(nodes, "n3").y < FindNode(nodes, "n2").y
  /\ getParentId("n4", edges) = "n2"
  /\ last.order = <<"root", "n3", "n2", "n4">>

\* Two children level with each other were walked in edge order, against
\* the node order.
C17_WitnessTie ==
  /\ last.op = "getTraversalOrder"
  /\ getChildrenOf("root", edges) = <<"n3", "n2">>
  /\ FindNode(nodes, "n3").y = FindNode(nodes, "n2").y
  /\ IndexOf(last.order, "n3") < IndexOf(last.order, "n2")

\* The two nodes of the cycle follow the walk of a tree in the order of the
\* node list.
C17_WitnessUnreached ==
  /\ last.op = "getTraversalOrder"
  /\ Len(nodes) = 5
  /\ nodes[1].id = "c2"
  /\ SubSeq(last.order, 4, 5) = <<"c2", "c1">>


\* C21: positionTree puts a root child whose input side is 'left' or
\* 'right' on that side, and a root child with any other side on the right
\* when its index among the root's children in edge order (from 0) is even
\* and on the left when it is odd; the output side of the child is the side
\* it was put on.
C21_RootChildSides ==
  Positioned =>
    LET rootChildren == getChildrenOf(getRootId(nodes, edges), edges)
    IN \A k \in 1..Len(rootChildren) :
         LET before == FindNode(src.nodes, rootChildren[k]).side
             after == FindNode(nodes, rootChildren[k])
             group == IF before \in {"left", "right"} THEN before
                      ELSE IF (k - 1) % 2 = 0 THEN "right" ELSE "left"
         IN /\ after.side = group
            /\ group = "left" => after.x < src.options.centerX
            /\ group = "right" => after.x > src.options.centerX

\* Three root children were laid out, the second of them tagged 'right'
\* before and the others untagged: all three are on the right.
C21_Witness ==
  /\ Positioned
  /\ getChildrenOf("root", edges) = <<"n2", "n3", "n4">>
  /\ FindNode(src.nodes, "n2").side = "undefined"
  /\ FindNode(src.nodes, "n3").side = "right"
  /\ FindNode(nodes, "n3").side = "right"
  /\ FindNode(nodes, "n2").side = "right"
  /\ FindNode(nodes, "n4").side = "right"


\* C27: positionTree applied to its own output, with the same edges and
\* viewport, returns that output: every node keeps its position and side.
C27_LayoutIdempotent ==
  steps = <<"positionTree", "positionTree">> =>
    /\ Len(nodes) = Len(last.nodes)
    /\ \A i \in 1..Len(nodes) :
         /\ nodes[i].id = last.nodes[i].id
         /\ nodes[i].x = last.nodes[i].x
         /\ nodes[i].y = last.nodes[i].y
         /\ nodes[i].side = last.nodes[i].side

\* A tree with three untagged root children, one of them with a child, was
\* laid out twice; the first layout moved nodes and tagged them.
C27_Witness ==
  /\ steps = <<"positionTree", "positionTree">>
  /\ Len(getChildrenOf("root", edges)) = 3
  /\ Len(nodes) = 5
  /\ \A i \in 2..Len(nodes) :
       /\ src.nodes[i].side = "undefined"
       /\ nodes[i].side \in {"left", "right"}
       /\ nodes[i].x # src.nodes[i].x


\* The number of nodes in the branches on a side of the root.
NodesOnSide(side) == Cardinality({i \in 1..Len(nodes) : nodes[i].side = side})

\* Neither side of the root is short of horizontal room.
RoomOnBothSides ==
  /\ src.options.centerX - Px(120) >= Px(170)
  /\ src.options.canvasWidth - src.options.centerX - Px(120) >= Px(170)

\* C22: with room on both sides, chooseRootChildSide for the root returns
\* the side whose branches hold fewer nodes, and 'left' when both sides
\* hold equally many; for a root without children it returns 'left'.
C22_FewerNodesSide ==
  (last.op = "chooseRootChildSide" /\ RoomOnBothSides) =>
    /\ NodesOnSide("left") < NodesOnSide("right") => last.side = "left"
    /\ NodesOnSide("left") > NodesOnSide("right") => last.side = "right"
    /\ NodesOnSide("left") = NodesOnSide("right") => last.side = "left"
    /\ Len(edges) = 0 => last.side = "left"

\* With one root child on each side the left branch holds three nodes and
\* the right branch one: the answer is 'right'.
C22_Witness ==
  /\ last.op = "chooseRootChildSide"
  /\ RoomOnBothSides
  /\ Len(getChildrenOf("root", edges)) = 2
  /\ NodesOnSide("left") = 3
  /\ NodesOnSide("right") = 1
  /\ last.side = "right"

\* Both sides hold two nodes: the answer is 'left'.
C22_WitnessTie ==
  /\ last.op = "chooseRootChildSide"
  /\ RoomOnBothSides
  /\ NodesOnSide("left") = 2
  /\ NodesOnSide("right") = 2
  /\ last.side = "left"


(***************************************************************************)
(* The editor while children are added to the root.                        *)
(***************************************************************************)

\* Bounding boxes of the editor canvas: the default one, a smaller one, and
\* one so narrow that neither side of the root has room.
Canvases ==
  {DefaultCanvas, [width |-> Px(800), height |-> Px(600)], [width |-> Px(400), height |-> Px(400)]}

\* The editor after mounting in a canvas: the initial-layout effect has put
\* the lone root in the centre.
InitBalance ==
  /\ canvas \in Canvases
  /\ \E arranged \in {positionTree(initialNodes, initialEdges,
                                   [centerX |-> canvas.width \div 2,
                                    centerY |-> canvas.height \div 2,
                                    canvasWidth |-> canvas.width])} :
       nodes = markSelected(arranged, getRootId(initialNodes, initialEdges))
  /\ edges = initialEdges
  /\ editingNodeId = NULL
  /\ created = 0
  /\ last = NoCall
  /\ text = <<>>
  /\ outline = <<>>
  /\ src = [kind |-> "none"]
  /\ steps = <<>>
  /\ savedMap = NoMap
  /\ outlineDraft = <<>>
  /\ isOutlineFocused = FALSE
  /\ app = NoApp

\* Enter while the root is selected: addChild(selectedNodeId, true).
EnterOnRoot ==
  /\ created < MaxRootChildren
  /\ selectedNodeId(nodes) = getRootId(nodes, edges)
  /\ addChild(selectedNodeId(nodes))
  /\ created' = created + 1
  /\ last' = [op |-> "addChild", newNodeId |-> createNodeId(created + 1)]
  /\ UNCHANGED savedMap
  /\ Untouched

NextBalance == EnterOnRoot \/ NodeClick \/ Arrow \/ OrganizeMap

SpecBalance == InitBalance /\ [][NextBalance]_vars

\* The number of children of the root on a side.
RootChildrenOnSide(side) ==
  Cardinality({c \in Range(getChildrenOf(getRootId(nodes, edges), edges)) :
                 FindNode(nodes, c).side = side})

\* C28: from a lone root in the centre of the canvas, after any number of
\* children added to the root, each followed by the layout, the left side
\* holds as many root children as the right side or one more.
C28_RootChildrenBalanced ==
  /\ RootChildrenOnSide("right") <= RootChildrenOnSide("left")
  /\ RootChildrenOnSide("left") <= RootChildrenOnSide("right") + 1
  /\ RootChildrenOnSide("left") + RootChildrenOnSide("right") = Len(nodes) - 1

\* Four children were added to the root: two on each side.
C28_Witness ==
  /\ last.op = "addChild"
  /\ Len(getChildrenOf("root", edges)) = 4
  /\ Len(nodes) = 5
  /\ RootChildrenOnSide("left") = 2
  /\ RootChildrenOnSide("right") = 2


\* The last call was removeNodeAndAdoptChildren.
Removed == last.op = "removeNodeAndAdoptChildren"

\* Every edge of the graph handed to the last call joins two of its nodes.
NoDanglingEdge ==
  \A i \in 1..Len(last.edges) :
    last.edges[i].source \in NodeIds(last.nodes) /\ last.edges[i].target \in NodeIds(last.nodes)

\* What C23 says of the call recorded in last.
SelectedAfterDelete ==
  LET r == last.result
      into == {i \in 1..Len(last.edges) : last.edges[i].target = last.arg}
  IN /\ into # {} => r.selectedAfterDeleteId = last.edges[Min(into)].source
     /\ (into = {} /\ Len(r.nodes) > 0) => r.selectedAfterDeleteId = r.nodes[1].id
     /\ (into = {} /\ Len(r.nodes) = 0) => r.selectedAfterDeleteId = NULL
     /\ r.selectedAfterDeleteId # NULL => r.selectedAfterDeleteId \in NodeIds(r.nodes)

C23_WitnessNull ==
  /\ Removed
  /\ Len(last.nodes) = 1
  /\ last.result.nodes = <<>>
  /\ last.result.selectedAfterDeleteId = NULL

\* A node below a root child was removed: its parent is returned.
C23_WitnessParent ==
  /\ Removed
  /\ NoDanglingEdge
  /\ last.result.selectedAfterDeleteId \notin {NULL, "root"}
  /\ last.result.selectedAfterDeleteId = getParentId(last.arg, last.edges)


\* C24: addSibling for the root leaves nodes (selection included), edges
\* and the editing state unchanged; for any other node it does what
\* addChild does for the parent of that node. (A step that sets last to
\* addSibling and leaves savedMap alone is a Tab step.)
C24_AddSibling ==
  [][(last'.op = "addSibling" /\ savedMap' = savedMap) =>
       IF getParentId(selectedNodeId(nodes), edges) = NULL
       THEN /\ nodes' = nodes
            /\ edges' = edges
            /\ editingNodeId' = editingNodeId
       ELSE /\ addChild(getParentId(selectedNodeId(nodes), edges))
            /\ getParentId(last'.newNodeId, edges') =
                 getParentId(selectedNodeId(nodes), edges)]_vars

\* Tab was pressed on a node below the root of a map of three nodes: the
\* new node is a child of the same parent, selected and being edited.
C24_Witness ==
  /\ last.op = "addSibling"
  /\ last.newNodeId # NULL
  /\ Len(nodes) = 4
  /\ Len(getChildrenOf(getParentId(last.newNodeId, edges), edges)) >= 2
  /\ editingNodeId = last.newNodeId

\* Tab was pressed on the root of a map of three nodes.
C24_WitnessRoot ==
  /\ last.op = "addSibling"
  /\ last.newNodeId = NULL
  /\ Len(nodes) = 3
  /\ selectedNodeId(nodes) = "root"


(***************************************************************************)
(* Specification SpecEdit: label editing in the editor.  A node enters the *)
(* editing state by F2, Ctrl+E, a double click, or as the new node of      *)
(* Enter and Tab; its input reports every change of the text through       *)
(* updateLabel and commits on Enter, Escape and blur through commitEdit.   *)
(* handleEditorKeyDown runs Ctrl+N and Ctrl+L before it looks at the       *)
(* typing target, and every other key after it.                            *)
(***************************************************************************)
\* The texts the label input reports: empty, blank, padded on both sides,
\* and clean.
TypedLabels == {<<>>, <<" ">>, <<" ", "a", " ">>, <<"a">>}

\* Outline drafts typed into the outline panel while the labels are
\* edited: an empty one and one whose line carries a padded label.
LabelDrafts == {<<>>, <<"-", " ", " ", "b", " ">>}

\* updateLabel(nodeId, nextLabel)
updateLabel(nodeId, nextLabel) ==
  nodes' = [i \in 1..Len(nodes) |->
              IF nodes[i].id = nodeId THEN [nodes[i] EXCEPT !.label = nextLabel]
              ELSE nodes[i]]

\* Mutant of commitEdit: the label is kept as typed unless it is empty.
commitEditUntrimmed(nodeId) ==
  /\ nodes' = [i \in 1..Len(nodes) |->
                 IF nodes[i].id = nodeId
                 THEN [nodes[i] EXCEPT !.label = IF nodes[i].label # <<>> THEN nodes[i].label
                                                 ELSE NewTopic]
                 ELSE nodes[i]]
  /\ editingNodeId' = IF editingNodeId = nodeId THEN NULL ELSE editingNodeId

\* commitEdit(nodeId): label.trim() || 'New Topic' on the node, and the
\* editing state cleared when it is this node's.
commitEdit(nodeId) ==
  /\ nodes' = [i \in 1..Len(nodes) |->
                 IF nodes[i].id = nodeId
                 THEN [nodes[i] EXCEPT !.label = IF trim(nodes[i].label) # <<>>
                                                 THEN trim(nodes[i].label)
                                                 ELSE NewTopic]
                 ELSE nodes[i]]
  /\ editingNodeId' = IF editingNodeId = nodeId THEN NULL ELSE editingNodeId

\* F2 or Ctrl+E outside an input: setEditingNodeId(selectedNodeId).
StartEditKey ==
  /\ editingNodeId = NULL
  /\ selectedNodeId(nodes) # NULL
  /\ editingNodeId' = selectedNodeId(nodes)
  /\ last' = [op |-> "startEdit"]
  /\ UNCHANGED <<nodes, edges, created, savedMap>>
  /\ Untouched

\* A double click on the label of a node: onStartEdit(id) selects the node
\* and puts it into the editing state.  The input of a node that was being
\* edited has lost the focus, and committed, before.
StartEditClick ==
  /\ editingNodeId = NULL
  /\ \E nodeId \in NodeIds(nodes) :
       /\ nodes' = selectNode(nodes, nodeId)
       /\ editingNodeId' = nodeId
  /\ last' = [op |-> "startEdit"]
  /\ UNCHANGED <<edges, created, savedMap>>
  /\ Untouched

\* onChange of the label input of the node being edited.
ChangeLabel ==
  /\ editingNodeId # NULL
  /\ \E nextLabel \in TypedLabels : updateLabel(editingNodeId, nextLabel)
  /\ last' = [op |-> "updateLabel"]
  /\ UNCHANGED <<edges, editingNodeId, created, savedMap>>
  /\ Untouched

\* Enter, Escape or blur in the label input of the node being edited.  last
\* keeps the argument of commitEdit and the state it was called in.
CommitEdit ==
  /\ editingNodeId # NULL
  /\ commitEdit(editingNodeId)
  /\ last' = [op |-> "commitEdit", nodeId |-> editingNodeId, nodes |-> nodes,
              editing |-> editingNodeId]
  /\ UNCHANGED <<edges, created, savedMap>>
  /\ Untouched

\* Ctrl+L, with the focus in the label input or outside: organizeMap().
\* last keeps the node that was being edited.
OrganizeAnywhere ==
  /\ organizeMap
  /\ last' = [op |-> "organizeMap", editing |-> editingNodeId]
  /\ UNCHANGED <<created, savedMap>>
  /\ Untouched

\* The input that organizeMap took off the screen reports a blur, as some
\* browsers do for a focused element that is removed, and others do not.
BlurOfRemovedInput ==
  /\ last.op = "organizeMap"
  /\ last.editing \in NodeIds(nodes)
  /\ commitEdit(last.editing)
  /\ last' = [op |-> "commitEdit", nodeId |-> last.editing, nodes |-> nodes,
              editing |-> editingNodeId]
  /\ UNCHANGED <<edges, created, savedMap>>
  /\ Untouched

\* Enter, Tab, Delete and Backspace with the focus outside an input.
EnterOutsideInput == editingNodeId = NULL /\ Enter
TabOutsideInput == editingNodeId = NULL /\ Tab
DeleteOutsideInput == editingNodeId = NULL /\ Delete

\* handleOutlineChange(nextText) of the outline panel, which has the focus.
OutlineLabelsChange ==
  /\ editingNodeId = NULL
  /\ \E nextText \in LabelDrafts : LoadGraph(outlineToGraph(parseOutlineText(nextText)))
  /\ UNCHANGED savedMap

NextEdit ==
  \/ StartEditKey
  \/ StartEditClick
  \/ ChangeLabel
  \/ CommitEdit
  \/ OrganizeAnywhere
  \/ BlurOfRemovedInput
  \/ EnterOutsideInput
  \/ TabOutsideInput
  \/ DeleteOutsideInput
  \/ OutlineLabelsChange

SpecEdit == Init /\ [][NextEdit]_vars

\* The label has a character and neither starts nor ends with whitespace.
CleanLabel(label) ==
  /\ Len(label) > 0
  /\ ~IsSpace(label[1])
  /\ ~IsSpace(label[Len(label)])

Blank(label) == \A k \in 1..Len(label) : IsSpace(label[k])

\* C25: after commitEdit(nodeId) the label of that node is 'New Topic' when
\* the label was empty or blank, and otherwise the old label without the
\* whitespace at its two ends; every other node, and everything else of
\* that node, is as it was; the editing state is cleared when nodeId was
\* the node being edited and kept otherwise.  One id at most is being
\* edited, and it is the id of a node.
C25_CommitEdit ==
  last.op = "commitEdit" =>
    /\ Len(nodes) = Len(last.nodes)
    /\ \A i \in 1..Len(nodes) :
         IF last.nodes[i].id # last.nodeId
         THEN nodes[i] = last.nodes[i]
         ELSE /\ [nodes[i] EXCEPT !.label = <<>>] = [last.nodes[i] EXCEPT !.label = <<>>]
              /\ IF Blank(last.nodes[i].label)
                 THEN nodes[i].label = NewTopic
                 ELSE /\ CleanLabel(nodes[i].label)
                      /\ \E a, b \in 0..Len(last.nodes[i].label) :
                           /\ a + Len(nodes[i].label) + b = Len(last.nodes[i].label)
                           /\ Blank(SubSeq(last.nodes[i].label, 1, a))
                           /\ nodes[i].label =
                                SubSeq(last.nodes[i].label, a + 1, a + Len(nodes[i].label))
                           /\ Blank(SubSeq(last.nodes[i].label,
                                           a + Len(nodes[i].label) + 1,
                                           Len(last.nodes[i].label)))
    /\ editingNodeId = (IF last.editing = last.nodeId THEN NULL ELSE last.editing)
    /\ editingNodeId \in NodeIds(nodes) \cup {NULL}

\* The edit of a node whose text had whitespace on both sides was
\* committed: the label lost it and no node is being edited.
C25_Witness ==
  /\ last.op = "commitEdit"
  /\ last.editing = last.nodeId
  /\ \E i \in 1..Len(nodes) :
       /\ last.nodes[i].id = last.nodeId
       /\ last.nodes[i].label = <<" ", "a", " ">>
       /\ nodes[i].label = <<"a">>
  /\ editingNodeId = NULL

\* The edit of a node whose text was blank was committed.
C25_WitnessBlank ==
  /\ last.op = "commitEdit"
  /\ \E i \in 1..Len(nodes) :
       /\ last.nodes[i].id = last.nodeId
       /\ last.nodes[i].label = <<" ">>
       /\ nodes[i].label = NewTopic

\* commitEdit ran for a node that was not the node being edited.
C25_WitnessOther ==
  /\ last.op = "commitEdit"
  /\ last.editing # last.nodeId

\* C26: whenever no node is being edited, the label of every node has a
\* character and neither starts nor ends with whitespace.
C26_LabelsClean ==
  editingNodeId = NULL => \A i \in 1..Len(nodes) : CleanLabel(nodes[i].label)

\* Ctrl+L was pressed while the label input of a node held an empty text:
\* no node is being edited and the label is empty.
C26_DirtyAfterOrganize ==
  /\ last.op = "organizeMap"
  /\ last.editing # NULL
  /\ editingNodeId = NULL
  /\ \E i \in 1..Len(nodes) : nodes[i].id = last.editing /\ nodes[i].label = <<>>


(***************************************************************************)
(* Specification SpecVault: the saved maps of useVault, the editor's graph *)
(* as the App component receives it through onStateChange, and the         *)
(* debounced autosave of useAutosave.  A step is what runs without being   *)
(* interrupted: an event handler up to its first await together with the   *)
(* render and the effects that follow it, the rest of a handler after an   *)
(* await, the editor's load effect, the App's render on a new editor       *)
(* state, the callback of the autosave timer, and the arrival of a         *)
(* response of the server.  Map ids are strings; the ids in ServerIds      *)
(* stand for the numbers the server hands out.  Titles are left out.       *)
(*                                                                         *)
(* Fields of app: savedMaps, selectedMapId, loadGraph as in useVault,      *)
(* loadPending (loadVersion has changed and the editor's load effect has   *)
(* not run yet), nodes and edges as in App, timeout (the arguments the     *)
(* pending timer of useAutosave will call persist with), inFlight (the     *)
(* updateMindMap requests without a response), deleting (the calls of      *)
(* deleteSavedMap that wait in their await), creating (the calls of        *)
(* createNewMap that wait in theirs), newMaps (maps created), commands     *)
(* (commands the user has given).  History fields:                         *)
(* editorOf and of (the id of the map that the graph in the                *)
(* editor, in App, in loadGraph or in a timer was loaded from), deleted    *)
(* (ids passed to deleteSavedMap) and deleteSent (ids whose deletion was   *)
(* sent to the server).  The updatedAt of the maps are kept up to their    *)
(* order: the maps of a list of n maps carry n - 1 down to 0, and the      *)
(* time of a new save or creation is n.                                    *)
(***************************************************************************)
\* StoredMindMap without its title.
StoredMindMap(id, updatedAt, graph) ==
  [id |-> id, updatedAt |-> updatedAt, nodes |-> graph.nodes, edges |-> graph.edges]

\* A saved graph of one topic, as the editor arranged it before it was
\* saved.
TopicGraph(label) ==
  LET arranged == applyLayout(<<Node("root", label, Px(40), Px(40), "undefined", TRUE)>>,
                              <<>>, "root")
  IN [nodes |-> arranged.arrangedNodes, edges |-> arranged.arrangedEdges]

\* typeof id === 'number'
IsServerId(id) == id \in {ToString(n) : n \in 1..(3 + MaxNewMaps)}

\* The lists hydrate finds, the most recent map first: a map of the
\* server and a local one, in either order.
VaultLists ==
  {<<StoredMindMap("1", 1, TopicGraph(<<"A">>)), StoredMindMap("u1", 0, TopicGraph(<<"B">>))>>,
   <<StoredMindMap("u1", 1, TopicGraph(<<"B">>)), StoredMindMap("1", 0, TopicGraph(<<"A">>))>>}

MapIds(maps) == {maps[i].id : i \in 1..Len(maps)}

\* maps.filter((map) => map.id !== mapId)
RECURSIVE withoutMap(_, _)
withoutMap(maps, mapId) ==
  IF maps = <<>> THEN <<>>
  ELSE IF Head(maps).id = mapId THEN withoutMap(Tail(maps), mapId)
  ELSE <<Head(maps)>> \o withoutMap(Tail(maps), mapId)

\* One step of the stable sort of sortMapsByUpdatedAt: map goes behind the
\* maps of sorted that are as recent as it is or more recent.
insertByUpdatedAt(sorted, map) ==
  LET k == Cardinality({i \in 1..Len(sorted) : sorted[i].updatedAt >= map.updatedAt})
  IN SubSeq(sorted, 1, k) \o <<map>> \o SubSeq(sorted, k + 1, Len(sorted))

\* [...maps].sort((a, b) => b.updatedAt.localeCompare(a.updatedAt))
RECURSIVE sortMapsByUpdatedAt(_)
sortMapsByUpdatedAt(maps) ==
  IF maps = <<>> THEN <<>>
  ELSE insertByUpdatedAt(sortMapsByUpdatedAt(SubSeq(maps, 1, Len(maps) - 1)), maps[Len(maps)])

\* upsertMap(maps, map)
upsertMap(maps, map) ==
  LET index == FirstIndex({i \in 1..Len(maps) : maps[i].id = map.id})
  IN sortMapsByUpdatedAt(IF index > 0 THEN [maps EXCEPT ![index] = map]
                         ELSE Append(maps, map))

\* new Date().toISOString(), and the updated_at the server hands out: later
\* than the updatedAt of every map of the list.
now(maps) == Len(maps)

\* The list with the updatedAt of its maps counted down from the first.
restamped(maps) == [i \in 1..Len(maps) |-> [maps[i] EXCEPT !.updatedAt = Len(maps) - i]]

NoTimeout == [armed |-> FALSE]

\* The effect of useAutosave with enabled true and blocked false: the
\* cleanup of the run before has cleared the timer, and a new one is set
\* on the nodes, edges and selectedMapId of this render of App.
autosaveEffect(a) ==
  [a EXCEPT !.timeout =
     IF Len(a.nodes) = 0 THEN NoTimeout
     ELSE [armed |-> TRUE, nodes |-> a.nodes, edges |-> a.edges,
           mapId |-> a.selectedMapId, of |-> a.of]]

\* The render of App that takes the state from before to after: the effect
\* of useAutosave runs again when nodes, edges, selectedMapId or persist
\* (which depends on savedMaps) has changed.
render(before, after) ==
  IF <<after.nodes, after.edges, after.selectedMapId, after.savedMaps>> =
     <<before.nodes, before.edges, before.selectedMapId, before.savedMaps>>
  THEN after
  ELSE autosaveEffect(after)

\* requestLoadGraph(graph) for the graph of the map with id mapId, and
\* setSelectedMapId(mapId).
selectAndLoad(a, mapId, graph) ==
  [a EXCEPT !.loadGraph = [nodes |-> graph.nodes, edges |-> graph.edges, of |-> mapId],
            !.loadPending = TRUE,
            !.selectedMapId = mapId]

\* The App after hydrate has loaded the most recent map, the editor has
\* arranged it and reported it, and the autosave timer is set.
InitVault ==
  /\ canvas = DefaultCanvas
  /\ \E maps \in VaultLists :
       \E arranged \in {applyLayout(maps[1].nodes, maps[1].edges,
                                    getRootId(maps[1].nodes, maps[1].edges))} :
         /\ nodes = arranged.arrangedNodes
         /\ edges = arranged.arrangedEdges
         /\ app = autosaveEffect(
                    [savedMaps |-> maps, selectedMapId |-> maps[1].id,
                     loadGraph |-> [nodes |-> maps[1].nodes, edges |-> maps[1].edges,
                                    of |-> maps[1].id],
                     loadPending |-> FALSE,
                     nodes |-> arranged.arrangedNodes, edges |-> arranged.arrangedEdges,
                     of |-> maps[1].id, editorOf |-> maps[1].id,
                     timeout |-> NoTimeout, inFlight |-> {}, deleting |-> {},
                     creating |-> 0, newMaps |-> 0, commands |-> 0,
                     deleted |-> {}, deleteSent |-> {}])
  /\ editingNodeId = NULL
  /\ created = 0
  /\ last = NoCall
  /\ text = <<>>
  /\ outline = <<>>
  /\ src = [kind |-> "none"]
  /\ steps = <<>>
  /\ savedMap = NoMap
  /\ outlineDraft = <<>>
  /\ isOutlineFocused = FALSE

\* What the App's steps leave alone.
OutsideApp ==
  UNCHANGED <<canvas, text, outline, src, steps, savedMap, outlineDraft, isOutlineFocused>>

\* loadSavedMapById(mapId) of a map of the list.
LoadSavedMapById ==
  /\ app.commands < MaxCommands
  /\ \E i \in 1..Len(app.savedMaps) :
       app' = render(app, selectAndLoad([app EXCEPT !.commands = @ + 1],
                                        app.savedMaps[i].id, app.savedMaps[i]))
  /\ UNCHANGED <<nodes, edges, editingNodeId, created, last>>
  /\ OutsideApp

\* The load effect of the editor: the graph of loadGraph is arranged and
\* becomes the editor's graph.
LoadEffect ==
  /\ app.loadPending
  /\ loadArranged(IF Len(app.loadGraph.nodes) > 0 THEN app.loadGraph.nodes ELSE initialNodes,
                  app.loadGraph.edges)
  /\ app' = [app EXCEPT !.loadPending = FALSE, !.editorOf = app.loadGraph.of]
  /\ UNCHANGED <<created, last>>
  /\ OutsideApp

\* Enter in the editor: a child is added to the selected node.
EditGraph ==
  /\ app.commands < MaxCommands
  /\ created < MaxEditorCreated
  /\ selectedNodeId(nodes) # NULL
  /\ addChild(selectedNodeId(nodes))
  /\ created' = created + 1
  /\ app' = [app EXCEPT !.commands = @ + 1]
  /\ UNCHANGED last
  /\ OutsideApp

\* The editor's effect calls onStateChange(nodes, edges) and App renders
\* on the new nodes and edges.
StateChange ==
  /\ <<nodes, edges>> # <<app.nodes, app.edges>>
  /\ app' = render(app, [app EXCEPT !.nodes = nodes, !.edges = edges, !.of = app.editorOf])
  /\ UNCHANGED <<nodes, edges, editingNodeId, created, last>>
  /\ OutsideApp

\* The timer of useAutosave fires: persistAutosave(params) up to its
\* await, for a map of the server, and to its end for a local one.  last
\* keeps the arguments of the call.
TimerFires ==
  /\ app.timeout.armed
  /\ Cardinality(app.inFlight) < MaxInFlight
  /\ \E params \in {app.timeout} :
       /\ IF params.mapId = NULL
          THEN app' = [app EXCEPT !.timeout = NoTimeout]
          ELSE IF IsServerId(params.mapId)
          THEN app' = [app EXCEPT !.timeout = NoTimeout,
                                  !.inFlight = @ \cup {[mapId |-> params.mapId,
                                                        nodes |-> params.nodes,
                                                        edges |-> params.edges,
                                                        deleted |-> params.mapId \in
                                                                      app.deleteSent]}]
          ELSE app' = render(app,
                        [app EXCEPT !.timeout = NoTimeout,
                                    !.savedMaps =
                                       restamped(upsertMap(@, StoredMindMap(params.mapId, now(@),
                                                                            params)))])
       /\ last' = [op |-> "persistAutosave", mapId |-> params.mapId, of |-> params.of]
  /\ UNCHANGED <<nodes, edges, editingNodeId, created>>
  /\ OutsideApp

\* updateMindMap answers: with the updated map, which is put into the
\* list, or with an error.  It does not answer with a map when the map's
\* deletion had been sent before the request was.
UpdateResponse ==
  /\ \E request \in app.inFlight, updated \in BOOLEAN :
       /\ updated => ~request.deleted
       /\ app' = IF updated
                 THEN render(app,
                        [app EXCEPT !.inFlight = @ \ {request},
                                    !.savedMaps =
                                       restamped(upsertMap(@, StoredMindMap(request.mapId, now(@),
                                                                            request)))])
                 ELSE [app EXCEPT !.inFlight = @ \ {request}]
       /\ last' = [op |-> "updateResponse", mapId |-> request.mapId, updated |-> updated]
  /\ UNCHANGED <<nodes, edges, editingNodeId, created>>
  /\ OutsideApp

\* deleteSavedMap(mapId) of a map of the list, up to its await: the map
\* leaves the list, and the call keeps remaining and selectedMapId.
DeleteSavedMap ==
  /\ app.commands < MaxCommands
  /\ Cardinality(app.deleting) < MaxInFlight
  /\ \E mapId \in MapIds(app.savedMaps) :
       \E remaining \in {withoutMap(app.savedMaps, mapId)} :
         /\ app' = render(app,
                     [app EXCEPT !.commands = @ + 1,
                                 !.savedMaps = restamped(remaining),
                                 !.deleting = @ \cup {[mapId |-> mapId, remaining |-> remaining,
                                                       selectedMapId |-> app.selectedMapId]},
                                 !.deleted = @ \cup {mapId},
                                 !.deleteSent = @ \cup (IF IsServerId(mapId) THEN {mapId}
                                                        ELSE {})])
         /\ last' = [op |-> "deleteSavedMap", mapId |-> mapId]
  /\ UNCHANGED <<nodes, edges, editingNodeId, created>>
  /\ OutsideApp

\* deleteSavedMap after its await: when the deleted map was the selected
\* one, the first of the remaining maps is loaded, or createNewMap is
\* called when none remains.
DeleteSavedMapResumes ==
  /\ \E call \in app.deleting :
       IF call.selectedMapId # call.mapId
       THEN app' = [app EXCEPT !.deleting = @ \ {call}]
       ELSE IF Len(call.remaining) > 0
       THEN app' = render(app, selectAndLoad([app EXCEPT !.deleting = @ \ {call}],
                                             call.remaining[1].id, call.remaining[1]))
       ELSE /\ app.newMaps + app.creating < MaxNewMaps
            /\ app' = [app EXCEPT !.deleting = @ \ {call}, !.creating = @ + 1]
  /\ UNCHANGED <<nodes, edges, editingNodeId, created, last>>
  /\ OutsideApp

\* Ctrl+N or the New button: createNewMap() up to its await.
CreateNewMapCalled ==
  /\ app.commands < MaxCommands
  /\ app.newMaps + app.creating < MaxNewMaps
  /\ app' = [app EXCEPT !.commands = @ + 1, !.creating = @ + 1]
  /\ UNCHANGED <<nodes, edges, editingNodeId, created, last>>
  /\ OutsideApp

\* createNewMap after its await: the server has created the map, which is
\* put into the list, selected and loaded; or it has not, and an empty map
\* with a local id is selected and loaded.
CreateNewMapResumes ==
  /\ app.creating > 0
  /\ \E onServer \in BOOLEAN :
       IF onServer
       THEN \E id \in {ToString(3 + app.newMaps)} :
              app' = render(app,
                       selectAndLoad(
                         [app EXCEPT !.creating = @ - 1,
                                     !.newMaps = @ + 1,
                                     !.savedMaps =
                                        restamped(sortMapsByUpdatedAt(
                                          <<StoredMindMap(id, now(@), createEmptyMap)>> \o @))],
                         id, createEmptyMap))
       ELSE \E id \in {"u" \o ToString(2 + app.newMaps)} :
              app' = render(app,
                       selectAndLoad([app EXCEPT !.creating = @ - 1, !.newMaps = @ + 1],
                                     id, createEmptyMap))
  /\ UNCHANGED <<nodes, edges, editingNodeId, created, last>>
  /\ OutsideApp

NextVault ==
  \/ LoadSavedMapById
  \/ LoadEffect
  \/ EditGraph
  \/ StateChange
  \/ TimerFires
  \/ UpdateResponse
  \/ DeleteSavedMap
  \/ DeleteSavedMapResumes
  \/ CreateNewMapCalled
  \/ CreateNewMapResumes

SpecVault == InitVault /\ [][NextVault]_vars

\* C29: every call of persist carries the nodes and edges of the map whose
\* id it carries: the graph was loaded from that map, or grew from it by
\* edits.
C29_PersistOwnGraph ==
  last.op = "persistAutosave" => last.of = last.mapId

\* The timer fired after loadSavedMapById had selected another map and
\* before App had the editor's new graph: persist is called with the id of
\* the map selected now and the graph of the map selected before.
C29_OtherMapsGraph ==
  /\ last.op = "persistAutosave"
  /\ last.of # last.mapId
  /\ last.mapId = app.selectedMapId

\* C30: no map of the saved-map list has an id that was passed to
\* deleteSavedMap.
C30_DeletedStaysDeleted ==
  \A i \in 1..Len(app.savedMaps) : app.savedMaps[i].id \notin app.deleted

\* The response to an autosave request that was sent before the map was
\* deleted has put the map back into the list.
C30_BackByResponse ==
  /\ last.op = "updateResponse"
  /\ last.updated
  /\ last.mapId \in app.deleted
  /\ last.mapId \in MapIds(app.savedMaps)

====
